---------------------------- MODULE Spec2Model ----------------------------
(***************************************************************************)
(* Livigy UPS integration: the poll cycle of LivigyUpsCoordinator          *)
(* (custom_components/livigy_ups/coordinator.py) and the dialect parsers   *)
(* (custom_components/livigy_ups/parser.py).                               *)
(*                                                                         *)
(* Python strings are TLA+ strings; a character is a string of length 1.   *)
(* A Python dict is a function from key strings to tagged values           *)
(* [t |-> type, v |-> value].  A Python float read from a decimal token is *)
(* kept exactly, as <<mantissa, decimals>> with no trailing zero decimals. *)
(***************************************************************************)
EXTENDS Integers, Sequences, FiniteSets, TLC

VARIABLES
    data,           \* self.data: the last result the coordinator stored (empty: None)
    pc,             \* position of the running poll cycle
    live_data,      \* _poll_once locals
    identity_data,
    ratings_data,
    mode_data,
    firmware_data,
    result,         \* the local `data` of _async_update_data: the Poll Result being built
    issued,         \* the exchanges of this cycle, in order: [cmd, role, ok]
    probe,          \* _check_adapter_connected of this cycle: "none", "up", "down"
    outcome,        \* how the last cycle ended: "none", "ok", "failed", "raised"
    influx,         \* influx export enabled and fully configured
    universe,       \* which status frames the device shows in this run
    cyclesLeft,     \* poll cycles the run may still start
    r1,             \* history: result of the last successful cycle while only failed cycles followed
    job,            \* the _exchange_with_retry or _send_command_with_retry call being executed
    xpc,            \* its position: "idle", "connect", "drain", "send", "read", "returned", "raised"
    attempt,        \* loop variable of the retry loop
    payload_idx,    \* index into payloads of the terminator loop
    frame_idx,      \* loop variable of the frame loop
    last_err,       \* last_error: "none", "transport", "empty", "parse"
    answer,         \* what the call returned or raised
    stale,          \* chunks the adapter has emitted that the drain has not read yet
    connects,       \* history: socket.create_connection calls of the call
    sends,          \* history: sock.sendall calls of the call
    frames,         \* history: _read_frame calls of the call
    open,           \* sockets the call holds open
    wire,           \* history: the socket operations of the call, in order
    request,        \* the service call being handled
    svc,            \* its position: "idle", "rejected", "sending", "refresh", "failed"
    given,          \* history: the wrapper and the tokens raw_frame was put together from
    raw_frame,      \* the frame handed to a parser
    parsed,         \* the parser applied and what it returned or that it raised
    stream,         \* the bytes the peer of a socket sends, in order
    closes,         \* the peer closes the connection after them
    taken,          \* how many of them sock.recv has handed out
    buffer,         \* _read_frame local
    rpc,            \* position of _read_frame: "idle", "loop"; "done": the socket is gone
    returns         \* history: how each _read_frame call ended, in order

pollvars == <<data, pc, live_data, identity_data, ratings_data, mode_data, firmware_data,
              result, issued, probe, outcome, influx, universe, cyclesLeft, r1>>

xvars == <<job, xpc, attempt, payload_idx, frame_idx, last_err, answer, stale, connects,
           sends, frames, open, wire>>

svcvars == <<request, svc>>

parsevars == <<given, raw_frame, parsed>>

readvars == <<stream, closes, taken, buffer, rpc, returns>>

vars == <<pollvars, xvars, svcvars, parsevars, readvars>>

(***************************************************************************)
(* Bounds of the model.                                                    *)
(***************************************************************************)
MaxCycles == 3
MaxFailedAttempts == 1

(***************************************************************************)
(* With(e, LAMBDA x : body) is "LET x == e IN body" with e evaluated once. *)
(***************************************************************************)
With(e, F(_)) == F(e)

(***************************************************************************)
(* Python values and dicts.                                                *)
(***************************************************************************)
NoneV == [t |-> "none", v |-> 0]
BoolV(b) == [t |-> "bool", v |-> b]
IntV(n) == [t |-> "int", v |-> n]
StrV(s) == [t |-> "str", v |-> s]

RECURSIVE Pow10(_)
Pow10(e) == IF e = 0 THEN 1 ELSE 10 * Pow10(e - 1)

RECURSIVE FloatV(_, _)
FloatV(m, e) ==
    IF e > 0 /\ m % 10 = 0 THEN FloatV(m \div 10, e - 1)
    ELSE [t |-> "float", v |-> <<m, e>>]

EmptyMap == [k \in {} |-> NoneV]

\* dict.update
Update(a, b) ==
    [k \in (DOMAIN a) \cup (DOMAIN b) |-> IF k \in DOMAIN b THEN b[k] ELSE a[k]]

\* dict.get(key) with the default None
Get(d, k) == IF k \in DOMAIN d THEN d[k] ELSE NoneV

\* d[key] = value
Put(d, k, x) == [j \in (DOMAIN d) \cup {k} |-> IF j = k THEN x ELSE d[j]]

\* Python truth value of bool(x) / `if x` / `not x`
Truthy(x) ==
    CASE x.t = "none" -> FALSE
      [] x.t = "bool" -> x.v
      [] x.t = "int" -> x.v # 0
      [] x.t = "float" -> x.v[1] # 0
      [] x.t = "str" -> x.v # ""

(***************************************************************************)
(* Python string operations.                                               *)
(***************************************************************************)
Ch(s, i) == SubSeq(s, i, i)

\* the slice s[i-1:j] of a string, clipped to the string as Python clips it
Slice(s, i, j) ==
    IF i > j \/ i > Len(s) THEN "" ELSE SubSeq(s, i, IF j > Len(s) THEN Len(s) ELSE j)

\* the ASCII whitespace str.strip() and str.split() remove
IsSpace(c) == c \in {" ", "\t", "\n", "\r", "\f"}

Digits == {"0", "1", "2", "3", "4", "5", "6", "7", "8", "9"}

DigitVal(c) ==
    CASE c = "0" -> 0 [] c = "1" -> 1 [] c = "2" -> 2 [] c = "3" -> 3 [] c = "4" -> 4
      [] c = "5" -> 5 [] c = "6" -> 6 [] c = "7" -> 7 [] c = "8" -> 8 [] c = "9" -> 9

\* the first index >= i whose character is not c-like (Len(s) + 1 if none)
FirstNonSpace(s, i) ==
    CHOOSE k \in i..(Len(s) + 1) :
        /\ k = Len(s) + 1 \/ ~IsSpace(Ch(s, k))
        /\ \A m \in i..(k - 1) : IsSpace(Ch(s, m))

FirstSpace(s, i) ==
    CHOOSE k \in i..(Len(s) + 1) :
        /\ k = Len(s) + 1 \/ IsSpace(Ch(s, k))
        /\ \A m \in i..(k - 1) : ~IsSpace(Ch(s, m))

LastNonSpace(s) ==
    CHOOSE k \in 0..Len(s) :
        /\ k = 0 \/ ~IsSpace(Ch(s, k))
        /\ \A m \in (k + 1)..Len(s) : IsSpace(Ch(s, m))

\* str.strip()
Strip(s) == Slice(s, FirstNonSpace(s, 1), LastNonSpace(s))

\* str.lstrip("#")
LStripHash(s) ==
    Slice(s, CHOOSE j \in 1..(Len(s) + 1) :
                 /\ j = Len(s) + 1 \/ Ch(s, j) # "#"
                 /\ \A m \in 1..(j - 1) : Ch(s, m) = "#",
          Len(s))

\* str.replace("#", "")
RECURSIVE RemoveHash(_)
RemoveHash(s) ==
    IF Len(s) <= 1 THEN (IF s = "#" THEN "" ELSE s)
    ELSE RemoveHash(Slice(s, 1, Len(s) \div 2))
            \o RemoveHash(Slice(s, Len(s) \div 2 + 1, Len(s)))

\* str.startswith(p)
StartsWith(s, p) == Len(s) >= Len(p) /\ Slice(s, 1, Len(p)) = p

\* str.split(): the maximal runs of non-whitespace characters
TokenStarts(s) ==
    {i \in 1..Len(s) : ~IsSpace(Ch(s, i)) /\ (i = 1 \/ IsSpace(Ch(s, i - 1)))}

NthOf(starts, n) == CHOOSE i \in starts : Cardinality({j \in starts : j < i}) = n - 1

TokenAt(s, i) == Slice(s, i, FirstSpace(s, i) - 1)

SplitAt(s, starts) == [n \in 1..Cardinality(starts) |-> TokenAt(s, NthOf(starts, n))]

Split(s) == SplitAt(s, TokenStarts(s))

\* " ".join(parts)
RECURSIVE Join(_)
Join(parts) ==
    IF Len(parts) = 0 THEN ""
    ELSE IF Len(parts) = 1 THEN parts[1]
    ELSE parts[1] \o " " \o Join(Tail(parts))

LowerCh(c) ==
    CASE c = "A" -> "a" [] c = "B" -> "b" [] c = "C" -> "c" [] c = "D" -> "d"
      [] c = "E" -> "e" [] c = "F" -> "f" [] c = "G" -> "g" [] c = "H" -> "h"
      [] c = "I" -> "i" [] c = "J" -> "j" [] c = "K" -> "k" [] c = "L" -> "l"
      [] c = "M" -> "m" [] c = "N" -> "n" [] c = "O" -> "o" [] c = "P" -> "p"
      [] c = "Q" -> "q" [] c = "R" -> "r" [] c = "S" -> "s" [] c = "T" -> "t"
      [] c = "U" -> "u" [] c = "V" -> "v" [] c = "W" -> "w" [] c = "X" -> "x"
      [] c = "Y" -> "y" [] c = "Z" -> "z" [] OTHER -> c

\* str.lower()
RECURSIVE Lower(_)
Lower(s) ==
    IF Len(s) <= 1 THEN LowerCh(s)
    ELSE Lower(Slice(s, 1, Len(s) \div 2)) \o Lower(Slice(s, Len(s) \div 2 + 1, Len(s)))

AllDigits(s) == \A i \in 1..Len(s) : Ch(s, i) \in Digits

RECURSIVE DigitsValue(_)
DigitsValue(s) ==
    IF s = "" THEN 0
    ELSE 10 * DigitsValue(Slice(s, 1, Len(s) - 1)) + DigitVal(Ch(s, Len(s)))

(***************************************************************************)
(* float(token) and int(token) on decimal literals: an optional sign,      *)
(* digits, and for float an optional point.  Every other token is a        *)
(* ValueError ([ok |-> FALSE]); the token alphabets of the model hold no   *)
(* exponent, "inf", "nan" or "_" forms, which Python would also accept.    *)
(***************************************************************************)
\* the digits before and after the point of an unsigned literal
Decimal(whole, frac, negative) ==
    IF AllDigits(whole) /\ AllDigits(frac) /\ Len(whole) + Len(frac) > 0
    THEN [ok |-> TRUE,
          val |-> FloatV((IF negative THEN -1 ELSE 1)
                            * (DigitsValue(whole) * Pow10(Len(frac)) + DigitsValue(frac)),
                         Len(frac))]
    ELSE [ok |-> FALSE, val |-> NoneV]

Unsigned(body, dots, negative) ==
    IF Cardinality(dots) > 1 THEN [ok |-> FALSE, val |-> NoneV]
    ELSE IF dots = {} THEN Decimal(body, "", negative)
    ELSE With(CHOOSE i \in dots : TRUE, LAMBDA dot :
             Decimal(Slice(body, 1, dot - 1), Slice(body, dot + 1, Len(body)), negative))

Negative(s) == Len(s) > 0 /\ Ch(s, 1) = "-"

DropSign(s) == IF Len(s) > 0 /\ Ch(s, 1) \in {"+", "-"} THEN Tail(s) ELSE s

Dots(body) == {i \in 1..Len(body) : Ch(body, i) = "."}

FloatOf(s, body) == Unsigned(body, Dots(body), Negative(s))

FloatOfStripped(s) == FloatOf(s, DropSign(s))

PyFloat(token) == FloatOfStripped(Strip(token))

IntOf(s, body) ==
    IF Len(body) > 0 /\ AllDigits(body)
    THEN [ok |-> TRUE, val |-> IntV((IF Negative(s) THEN -1 ELSE 1) * DigitsValue(body))]
    ELSE [ok |-> FALSE, val |-> NoneV]

IntOfStripped(s) == IntOf(s, DropSign(s))

PyInt(token) == IntOfStripped(Strip(token))

\* int(x) of a float: truncation towards zero
TruncFloat(f) ==
    IntV(IF f.v[1] >= 0 THEN f.v[1] \div Pow10(f.v[2])
         ELSE 0 - ((0 - f.v[1]) \div Pow10(f.v[2])))

\* float(x) >= 100.0 for an int or float x
AtLeast100(x) ==
    IF x.t = "int" THEN x.v >= 100 ELSE x.v[1] >= 100 * Pow10(x.v[2])

(***************************************************************************)
(* parser.py.  A parser returns [ok |-> TRUE, data |-> mapping], or        *)
(* ParseError where the Python function raises.                            *)
(***************************************************************************)
ParseError == [ok |-> FALSE, data |-> EmptyMap]
Parsed(m) == [ok |-> TRUE, data |-> m]

DropOpen(payload) == IF StartsWith(payload, "(") THEN Tail(payload) ELSE payload

DropCR(payload) ==
    IF Len(payload) > 0 /\ Ch(payload, Len(payload)) = "\r"
    THEN Slice(payload, 1, Len(payload) - 1) ELSE payload

_strip_wrapping(raw) == Strip(DropCR(DropOpen(Strip(raw))))

_is_number(value) == PyFloat(value).ok

_normalize_numeric_token(token) == LStripHash(Strip(token))

_parse_float(token) == PyFloat(_normalize_numeric_token(token))

_parse_int(token) ==
    With(PyFloat(_normalize_numeric_token(token)), LAMBDA f :
        IF f.ok THEN [ok |-> TRUE, val |-> TruncFloat(f.val)] ELSE f)

IsBitsOfLength(bits, n) == Len(bits) = n

IsBits(bits, n) == Len(bits) = n /\ \A i \in 1..n : Ch(bits, i) \in {"0", "1"}

parse_q1(raw) ==
    With(Split(_strip_wrapping(raw)), LAMBDA parts :
    IF Len(parts) < 8 THEN ParseError
    ELSE With(parts[8], LAMBDA bits :
    IF ~IsBits(bits, 8) THEN ParseError
    ELSE IF \E i \in 1..7 : ~_parse_float(parts[i]).ok THEN ParseError
    ELSE Parsed(
        [input_voltage |-> _parse_float(parts[1]).val,
         fault_voltage |-> _parse_float(parts[2]).val,
         output_voltage |-> _parse_float(parts[3]).val,
         load_percent |-> _parse_int(parts[4]).val,
         input_frequency_hz |-> _parse_float(parts[5]).val,
         battery_voltage |-> _parse_float(parts[6]).val,
         temperature_c |-> _parse_float(parts[7]).val,
         utility_fail |-> BoolV(Ch(bits, 1) = "1"),
         battery_low |-> BoolV(Ch(bits, 2) = "1"),
         avr_active |-> BoolV(Ch(bits, 3) = "1"),
         ups_failed |-> BoolV(Ch(bits, 4) = "1"),
         standby_type |-> BoolV(Ch(bits, 5) = "1"),
         test_in_progress |-> BoolV(Ch(bits, 6) = "1"),
         shutdown_active |-> BoolV(Ch(bits, 7) = "1"),
         beeper_on |-> BoolV(Ch(bits, 8) = "1"),
         protocol_family |-> StrV("megatec")])))

ups_topology_two_codes(code) ==
    CASE code = "00" -> "standby"
      [] code = "01" -> "line_interactive"
      [] OTHER -> "unknown"

ups_topology(code) ==
    CASE code = "00" -> "standby"
      [] code = "01" -> "line_interactive"
      [] code = "10" -> "online"
      [] OTHER -> "unknown"

parse_qgs(raw) ==
    With(Split(_strip_wrapping(raw)), LAMBDA parts :
    IF Len(parts) < 12 THEN ParseError
    ELSE With(parts[12], LAMBDA bits :
    IF ~IsBits(bits, 12) THEN ParseError
    ELSE IF \E i \in 1..11 : ~_parse_float(parts[i]).ok THEN ParseError
    ELSE Parsed(
        [input_voltage |-> _parse_float(parts[1]).val,
         input_frequency_hz |-> _parse_float(parts[2]).val,
         output_voltage |-> _parse_float(parts[3]).val,
         output_frequency_hz |-> _parse_float(parts[4]).val,
         output_current_a |-> _parse_float(parts[5]).val,
         load_percent |-> _parse_int(parts[6]).val,
         positive_bus_voltage |-> _parse_float(parts[7]).val,
         negative_bus_voltage |-> _parse_float(parts[8]).val,
         battery_voltage |-> _parse_float(parts[9]).val,
         negative_battery_voltage |-> _parse_float(parts[10]).val,
         temperature_c |-> _parse_float(parts[11]).val,
         utility_fail |-> BoolV(Ch(bits, 3) = "1"),
         battery_low |-> BoolV(Ch(bits, 4) = "1"),
         avr_active |-> BoolV(Ch(bits, 5) = "1"),
         ups_failed |-> BoolV(Ch(bits, 6) = "1"),
         epo_active |-> BoolV(Ch(bits, 7) = "1"),
         test_in_progress |-> BoolV(Ch(bits, 8) = "1"),
         shutdown_active |-> BoolV(Ch(bits, 9) = "1"),
         battery_silence |-> BoolV(Ch(bits, 10) = "1"),
         beeper_on |-> BoolV(Ch(bits, 10) = "0"),
         battery_test_fail |-> BoolV(Ch(bits, 11) = "1"),
         battery_test_ok |-> BoolV(Ch(bits, 12) = "1"),
         standby_type |-> BoolV(Ch(bits, 1) = "0" /\ Ch(bits, 2) = "0"),
         ups_topology |-> StrV(ups_topology(Slice(bits, 1, 2))),
         protocol_family |-> StrV("centurion")])))

parse_qmd(raw) ==
    With(Split(_strip_wrapping(raw)), LAMBDA parts :
    IF Len(parts) < 8 THEN ParseError
    ELSE With(RemoveHash(parts[2]), LAMBDA rated_watt_str :
         With(PyInt(rated_watt_str), LAMBDA watts :
         With(PyInt(parts[3]), LAMBDA pf :
         Parsed(
        [company |-> StrV("PowerShield"),
         model |-> StrV(RemoveHash(parts[1])),
         rated_watts |-> IF rated_watt_str # "" /\ watts.ok THEN watts.val ELSE NoneV,
         output_power_factor_percent |-> IF pf.ok THEN pf.val ELSE NoneV])))))

mode_map_without_eco(code) ==
    CASE code = "P" -> "power_on"
      [] code = "S" -> "standby"
      [] code = "Y" -> "bypass"
      [] code = "L" -> "line"
      [] code = "B" -> "battery"
      [] code = "T" -> "battery_test"
      [] code = "F" -> "fault"
      [] code = "C" -> "converter"
      [] code = "D" -> "shutdown"
      [] OTHER -> ""

mode_map_without_test(code) ==
    CASE code = "P" -> "power_on"
      [] code = "S" -> "standby"
      [] code = "Y" -> "bypass"
      [] code = "L" -> "line"
      [] code = "B" -> "battery"
      [] code = "F" -> "fault"
      [] code = "E" -> "eco"
      [] code = "C" -> "converter"
      [] code = "D" -> "shutdown"
      [] OTHER -> ""

mode_map(code) ==
    CASE code = "P" -> "power_on"
      [] code = "S" -> "standby"
      [] code = "Y" -> "bypass"
      [] code = "L" -> "line"
      [] code = "B" -> "battery"
      [] code = "T" -> "battery_test"
      [] code = "F" -> "fault"
      [] code = "E" -> "eco"
      [] code = "C" -> "converter"
      [] code = "D" -> "shutdown"
      [] OTHER -> ""

parse_qmod(raw) ==
    With(Slice(_strip_wrapping(raw), 1, 1), LAMBDA code :
       IF mode_map(code) = "" THEN ParseError
       ELSE Parsed([ups_mode |-> StrV(mode_map(code)), ups_mode_code |-> StrV(code)]))

parse_qri(raw) ==
    With(Split(_strip_wrapping(raw)), LAMBDA parts :
    IF Len(parts) < 4 THEN ParseError
    ELSE IF \E i \in 1..4 : ~_parse_float(parts[i]).ok THEN ParseError
    ELSE Parsed(
        [rated_voltage |-> _parse_float(parts[1]).val,
         rated_current |-> _parse_float(parts[2]).val,
         rated_battery_voltage |-> _parse_float(parts[3]).val,
         rated_frequency_hz |-> _parse_float(parts[4]).val]))

parse_qvfw(raw) ==
    With(_strip_wrapping(raw), LAMBDA payload :
    IF ~StartsWith(payload, "VERFW:") THEN ParseError
    ELSE Parsed([firmware |-> StrV(Strip(Slice(payload, 7, Len(payload))))]))

parse_i(raw) ==
    With(Strip(raw), LAMBDA raw_payload :
    IF StartsWith(raw_payload, "(") THEN ParseError
    ELSE With(Strip(LStripHash(raw_payload)), LAMBDA payload :
         With(Split(payload), LAMBDA parts :
            IF Len(parts) = 0 THEN ParseError
            ELSE IF _is_number(parts[1]) THEN ParseError
            ELSE IF Len(parts) < 3
                 THEN Parsed([company |-> StrV(""), model |-> StrV(payload),
                              firmware |-> StrV("")])
            ELSE Parsed([company |-> StrV(parts[1]), model |-> StrV(parts[2]),
                         firmware |-> StrV(Join(SubSeq(parts, 3, Len(parts))))]))))

parse_f(raw) ==
    With(Split(Strip(LStripHash(_strip_wrapping(raw)))), LAMBDA parts :
    IF Len(parts) < 4 THEN ParseError
    ELSE IF \E i \in 1..4 : ~_parse_float(parts[i]).ok THEN ParseError
    ELSE Parsed(
        [rated_voltage |-> _parse_float(parts[1]).val,
         rated_current |-> _parse_float(parts[2]).val,
         rated_battery_voltage |-> _parse_float(parts[3]).val,
         rated_frequency_hz |-> _parse_float(parts[4]).val]))

(***************************************************************************)
(* The frames a device can answer with, as _read_frame returns them        *)
(* (stripped, without the terminator).  A status setting is the part of    *)
(* the device state the status derivation reads: three status bits and     *)
(* the load.                                                               *)
(***************************************************************************)
Bit(b) == IF b THEN "1" ELSE "0"

Setting(fail, low, failed, load) ==
    [utility_fail |-> fail, battery_low |-> low, ups_failed |-> failed, load |-> load]

Settings(u) ==
    IF u = "wide"
    THEN {Setting(a, b, c, l) : a \in BOOLEAN, b \in BOOLEAN, c \in BOOLEAN, l \in {"099", "100"}}
    ELSE {Setting(FALSE, FALSE, FALSE, "099"), Setting(TRUE, TRUE, FALSE, "100")}

Q1Frame(st) ==
    "(219.7 140.0 219.7 " \o st.load \o " 50.0 27.3 30.0 "
        \o Bit(st.utility_fail) \o Bit(st.battery_low) \o "0" \o Bit(st.ups_failed) \o "0001"

QGSFrame(st) ==
    "(230.0 50.0 230.0 50.0 001.0 " \o st.load \o " 380.0 380.0 27.3 00.0 30.0 10"
        \o Bit(st.utility_fail) \o Bit(st.battery_low) \o "0" \o Bit(st.ups_failed) \o "000001"

IFrame == "#LIVIGY PSH-1500 FW1.03"
FFrame == "#220.0 005 24.00 50.0"
QMDFrame == "(#######PSH-1500 ###1500 80 1/1 230 230 02 12.0"
QRIFrame == "(230.0 006 024.0 50.0"
QMODFrames(u) == IF u = "wide" THEN {"(L", "(B", "(T"} ELSE {"(L"}
QVFWFrame == "(VERFW:00123.04"
NakFrame == "(NAK"

\* the frames with which the device answers a command
AnswerFrames(cmd, u) ==
    CASE cmd = "QGS" -> {QGSFrame(st) : st \in Settings(u)}
      [] cmd = "Q1" -> {Q1Frame(st) : st \in Settings(u)}
      [] cmd = "I" -> {IFrame}
      [] cmd = "F" -> {FFrame}
      [] cmd = "QMD" -> {QMDFrame}
      [] cmd = "QRI" -> {QRIFrame}
      [] cmd = "QMOD" -> QMODFrames(u)
      [] cmd = "QVFW" -> {QVFWFrame}

Commands == {"QGS", "Q1", "I", "F", "QMD", "QRI", "QMOD", "QVFW"}
Universes == {"narrow", "wide"}

AllFrames == {NakFrame} \cup UNION {AnswerFrames(c, "wide") : c \in Commands}

Parsers == {"parse_qgs", "parse_q1", "parse_i", "parse_f", "parse_qmd", "parse_qri",
            "parse_qmod", "parse_qvfw"}

\* parser(raw) for the parser function passed to _exchange_with_retry
Parse(parser, raw) ==
    CASE parser = "parse_qgs" -> parse_qgs(raw)
      [] parser = "parse_q1" -> parse_q1(raw)
      [] parser = "parse_i" -> parse_i(raw)
      [] parser = "parse_f" -> parse_f(raw)
      [] parser = "parse_qmd" -> parse_qmd(raw)
      [] parser = "parse_qri" -> parse_qri(raw)
      [] parser = "parse_qmod" -> parse_qmod(raw)
      [] parser = "parse_qvfw" -> parse_qvfw(raw)

\* Parse on the frames of the model, evaluated once
ParseTable == [p \in Parsers |-> [f \in AllFrames |-> Parse(p, f)]]

ParseFrame(parser, raw) ==
    IF raw \in AllFrames THEN ParseTable[parser][raw] ELSE Parse(parser, raw)

(***************************************************************************)
(* _exchange_with_retry.  What the adapter does during one call is a       *)
(* script: per connection attempt, whether the connect, the drain and each *)
(* send succeed, and what each _read_frame call returns ("" on timeout) or *)
(* that it raises.  Reads past the end of an attempt's list time out;      *)
(* attempts past the end of the script behave like its last attempt.       *)
(***************************************************************************)
DefaultRetries == 4
DefaultFramesPerTry == 6
LegacyRetries == 1
LegacyFramesPerTry == 2
PayloadsLfFirst == <<"\n", "\r\n", "\r">>

Payloads == <<"\r", "\r\n", "\n">>

Frame(raw) == [err |-> FALSE, raw |-> raw]
Timeout == Frame("")
RecvError == [err |-> TRUE, raw |-> ""]

Attempt(connect, drain, sendFail, reads) ==
    [connect |-> connect, drain |-> drain, sendFail |-> sendFail, reads |-> reads]

ScriptAt(script, a) ==
    IF a <= Len(script) THEN script[a] ELSE script[Len(script)]

\* lines 114-134: the terminator loop and the frame loop on one connection.
\* The idx-th _read_frame call of an attempt follows the send of payload
\* PayloadOf(idx), which is sent just before the call when IsFirst(idx).
\* a frame reader that raises when the frame it read is not the answer
ReadAtRaisingOnNoise(att, idx) ==
    IF idx > Len(att.reads) THEN Timeout
    ELSE IF /\ job.kind = "exchange"
            /\ att.reads[idx].raw # ""
            /\ ~ParseFrame(job.parser, att.reads[idx].raw).ok
         THEN [err |-> TRUE, raw |-> att.reads[idx].raw]
         ELSE att.reads[idx]

ReadAt(att, idx) == IF idx <= Len(att.reads) THEN att.reads[idx] ELSE Timeout

PayloadOf(idx, frames_per_try) == ((idx - 1) \div frames_per_try) + 1

IsFirst(idx, frames_per_try) == (idx - 1) % frames_per_try = 0

SendRaises(att, idx, frames_per_try) ==
    IsFirst(idx, frames_per_try) /\ att.sendFail = PayloadOf(idx, frames_per_try)

\* the loops are left at the idx-th call: sendall or recv raises, or the
\* parser accepts the frame
Leaves(parser, frames_per_try, att, idx) ==
    \/ SendRaises(att, idx, frames_per_try)
    \/ ReadAt(att, idx).err
    \/ ReadAt(att, idx).raw # "" /\ ParseFrame(parser, ReadAt(att, idx).raw).ok

\* the first call at which the loops are left, or one past the last call
LeaveIndex(parser, frames_per_try, att) ==
    CHOOSE k \in 1..(Len(Payloads) * frames_per_try + 1) :
        /\ k = Len(Payloads) * frames_per_try + 1 \/ Leaves(parser, frames_per_try, att, k)
        /\ \A m \in 1..(k - 1) : ~Leaves(parser, frames_per_try, att, m)

\* last_error after the calls before the k-th were ignored
ErrorBefore(att, k, last_error) ==
    IF k = 1 THEN last_error
    ELSE IF ReadAt(att, k - 1).raw = "" THEN "empty" ELSE "parse"

Sent(cmd, n) == [p \in 1..n |-> cmd \o Payloads[p]]

ReadLoopFrom(cmd, parser, frames_per_try, att, last_error, k) ==
    IF k > Len(Payloads) * frames_per_try
    THEN [ok |-> FALSE, raw |-> "", data |-> EmptyMap,
          last_error |-> ErrorBefore(att, k, last_error),
          sent |-> Sent(cmd, Len(Payloads))]
    ELSE IF SendRaises(att, k, frames_per_try)
    THEN [ok |-> FALSE, raw |-> "", data |-> EmptyMap, last_error |-> "transport",
          sent |-> Sent(cmd, PayloadOf(k, frames_per_try) - 1)]
    ELSE IF ReadAt(att, k).err
    THEN [ok |-> FALSE, raw |-> "", data |-> EmptyMap, last_error |-> "transport",
          sent |-> Sent(cmd, PayloadOf(k, frames_per_try))]
    ELSE [ok |-> TRUE, raw |-> ReadAt(att, k).raw,
          data |-> ParseFrame(parser, ReadAt(att, k).raw).data,
          last_error |-> ErrorBefore(att, k, last_error),
          sent |-> Sent(cmd, PayloadOf(k, frames_per_try))]

ReadLoop(cmd, parser, frames_per_try, att, last_error) ==
    ReadLoopFrom(cmd, parser, frames_per_try, att, last_error,
                 LeaveIndex(parser, frames_per_try, att))

\* lines 108-138: the retry loop
RECURSIVE AttemptLoop(_, _, _, _, _, _, _)

AfterAttempt(cmd, parser, retries, frames_per_try, script, a, r) ==
    IF r.ok THEN r
    ELSE AttemptLoop(cmd, parser, retries, frames_per_try, script, a + 1, r.last_error)

AttemptLoop(cmd, parser, retries, frames_per_try, script, a, last_error) ==
    IF a > retries
    THEN [ok |-> FALSE, raw |-> "", data |-> EmptyMap, last_error |-> last_error,
          sent |-> << >>]
    ELSE IF ~ScriptAt(script, a).connect \/ ~ScriptAt(script, a).drain
    THEN AttemptLoop(cmd, parser, retries, frames_per_try, script, a + 1, "transport")
    ELSE AfterAttempt(cmd, parser, retries, frames_per_try, script, a,
                      ReadLoop(cmd, parser, frames_per_try, ScriptAt(script, a),
                               last_error))

_exchange_with_retry(cmd, parser, retries, frames_per_try, script) ==
    AttemptLoop(cmd, parser, retries, frames_per_try, script, 1, "none")

(***************************************************************************)
(* The scripts of the model: up to MaxFailedAttempts failing attempts,     *)
(* then an attempt that fails or that answers after optional noise.        *)
(***************************************************************************)
FailingAttempts ==
    {Attempt(FALSE, TRUE, 0, << >>),                       \* connect refused
     Attempt(TRUE, FALSE, 0, << >>),                       \* reset during the drain
     Attempt(TRUE, TRUE, 2, << >>),                        \* second send fails
     Attempt(TRUE, TRUE, 0, << >>),                        \* silence
     Attempt(TRUE, TRUE, 0, <<Frame(NakFrame), RecvError>>)}

Noises == {<< >>, <<Timeout>>, <<Frame(NakFrame)>>,
           <<Timeout, Timeout, Timeout, Timeout, Timeout, Timeout>>}

AnsweringAttempts(cmd, u) ==
    {Attempt(TRUE, TRUE, 0, n \o <<Frame(f)>>) : n \in Noises, f \in AnswerFrames(cmd, u)}

RECURSIVE FailingPrefixes(_)
FailingPrefixes(n) ==
    IF n = 0 THEN {<< >>}
    ELSE With(FailingPrefixes(n - 1), LAMBDA shorter :
             shorter \cup {Append(q, f) : q \in shorter, f \in FailingAttempts})

Scripts(cmd, u) ==
    {q \o <<last>> : q \in FailingPrefixes(MaxFailedAttempts),
                     last \in FailingAttempts \cup AnsweringAttempts(cmd, u)}

\* the call sites of _exchange_with_retry in _poll_once
Sites ==
    [QGS |-> [cmd |-> "QGS", parser |-> "parse_qgs", retries |-> DefaultRetries,
              frames_per_try |-> DefaultFramesPerTry],
     Q1 |-> [cmd |-> "Q1", parser |-> "parse_q1", retries |-> DefaultRetries,
             frames_per_try |-> DefaultFramesPerTry],
     Q1_legacy |-> [cmd |-> "Q1", parser |-> "parse_q1", retries |-> LegacyRetries,
                    frames_per_try |-> LegacyFramesPerTry],
     QMD |-> [cmd |-> "QMD", parser |-> "parse_qmd", retries |-> DefaultRetries,
              frames_per_try |-> DefaultFramesPerTry],
     QRI |-> [cmd |-> "QRI", parser |-> "parse_qri", retries |-> DefaultRetries,
              frames_per_try |-> DefaultFramesPerTry],
     QMOD |-> [cmd |-> "QMOD", parser |-> "parse_qmod", retries |-> DefaultRetries,
               frames_per_try |-> DefaultFramesPerTry],
     QVFW |-> [cmd |-> "QVFW", parser |-> "parse_qvfw", retries |-> DefaultRetries,
               frames_per_try |-> DefaultFramesPerTry],
     I |-> [cmd |-> "I", parser |-> "parse_i", retries |-> DefaultRetries,
            frames_per_try |-> DefaultFramesPerTry],
     F |-> [cmd |-> "F", parser |-> "parse_f", retries |-> DefaultRetries,
            frames_per_try |-> DefaultFramesPerTry]]

\* what a call site can get back: the parsed mapping, or the raised error
ExchangeAt(site, script) ==
    With(_exchange_with_retry(Sites[site].cmd, Sites[site].parser, Sites[site].retries,
                              Sites[site].frames_per_try, script),
         LAMBDA r : [ok |-> r.ok, data |-> r.data])

Exchanges ==
    [u \in Universes |->
        [site \in DOMAIN Sites |->
            {ExchangeAt(site, s) : s \in Scripts(Sites[site].cmd, u)}]]

(***************************************************************************)
(* _poll_once, lines 198-227: merge and derive.                            *)
(***************************************************************************)
\* str(x) for the values ups_mode can hold
PyStr(x) ==
    CASE x.t = "str" -> x.v
      [] x.t = "none" -> "None"

\* lines 209-212: float(load_percent) >= 100.0, None when absent or not a number
overload_warning(load_percent) ==
    CASE load_percent.t = "none" -> NoneV
      [] load_percent.t \in {"int", "float"} -> BoolV(AtLeast100(load_percent))
      [] load_percent.t = "bool" -> BoolV(FALSE)
      [] load_percent.t = "str" ->
            IF PyFloat(load_percent.v).ok
            THEN BoolV(AtLeast100(PyFloat(load_percent.v).val)) ELSE NoneV

\* on_battery that looks at ups_mode only
on_battery_mode_only(d) ==
    BoolV(Lower(IF "ups_mode" \in DOMAIN d THEN PyStr(d["ups_mode"]) ELSE "")
              \in {"battery", "battery_test", "battery test"})

\* line 208
on_battery(d) ==
    BoolV(Lower(IF "ups_mode" \in DOMAIN d THEN PyStr(d["ups_mode"]) ELSE "")
              \in {"battery", "battery_test", "battery test"}
          \/ Truthy(Get(d, "utility_fail")))

\* the status chain with "Battery Low" tested before "On Battery"
status_summary_low_first(d) ==
    IF ~Truthy(Get(d, "adapter_connected")) THEN "Adapter Disconnected"
    ELSE IF ~Truthy(Get(d, "ups_responding")) THEN "UPS Not Responding"
    ELSE IF Truthy(Get(d, "ups_failed")) THEN "UPS Fault"
    ELSE IF Truthy(Get(d, "battery_low")) THEN "Battery Low"
    ELSE IF Truthy(Get(d, "utility_fail")) THEN "On Battery"
    ELSE IF Truthy(Get(d, "overload_warning")) THEN "Overload"
    ELSE "Normal"

\* lines 213-226
status_summary(d) ==
    IF ~Truthy(Get(d, "adapter_connected")) THEN "Adapter Disconnected"
    ELSE IF ~Truthy(Get(d, "ups_responding")) THEN "UPS Not Responding"
    ELSE IF Truthy(Get(d, "ups_failed")) THEN "UPS Fault"
    ELSE IF Truthy(Get(d, "utility_fail")) THEN "On Battery"
    ELSE IF Truthy(Get(d, "battery_low")) THEN "Battery Low"
    ELSE IF Truthy(Get(d, "overload_warning")) THEN "Overload"
    ELSE "Normal"

\* lines 198-203
Merge(live, identity, ratings, mode, firmware) ==
    Update(Update(Update(Update(Update(EmptyMap, live), identity), ratings), mode), firmware)

\* lines 204-226: the derived fields, each computed from the mapping so far
SetResponding(d) ==
    Put(Put(d, "adapter_connected", BoolV(TRUE)), "ups_responding", BoolV(TRUE))

SetOnBattery(d) == Put(d, "on_battery", on_battery(d))

SetOverload(d) == Put(d, "overload_warning", overload_warning(Get(d, "load_percent")))

SetSummary(d) == Put(d, "status_summary", StrV(status_summary(d)))

Derive(live, identity, ratings, mode, firmware) ==
    SetSummary(SetOverload(SetOnBattery(SetResponding(
        Merge(live, identity, ratings, mode, firmware)))))

\* a failed cycle that starts from an empty mapping instead of self.data
FailedResultBlank(previous, adapter_connected) ==
    Put(Put(Put(EmptyMap, "adapter_connected", BoolV(adapter_connected)),
            "ups_responding", BoolV(FALSE)),
        "status_summary",
        StrV(IF adapter_connected THEN "UPS Not Responding" ELSE "Adapter Disconnected"))

\* a failed cycle that reports the probe's outcome inverted
FailedResultInverted(previous, adapter_connected) ==
    Put(Put(Put(previous, "adapter_connected", BoolV(~adapter_connected)),
            "ups_responding", BoolV(FALSE)),
        "status_summary",
        StrV(IF adapter_connected THEN "UPS Not Responding" ELSE "Adapter Disconnected"))

\* a failed cycle that leaves ups_responding as the last result had it
FailedResultStillResponding(previous, adapter_connected) ==
    Put(Put(previous, "adapter_connected", BoolV(adapter_connected)),
        "status_summary",
        StrV(IF adapter_connected THEN "UPS Not Responding" ELSE "Adapter Disconnected"))

\* lines 335-338: the result of a cycle whose try block raised
FailedResult(previous, adapter_connected) ==
    Put(Put(Put(previous, "adapter_connected", BoolV(adapter_connected)),
            "ups_responding", BoolV(FALSE)),
        "status_summary",
        StrV(IF adapter_connected THEN "UPS Not Responding" ELSE "Adapter Disconnected"))

\* lines 277-300: _to_line_protocol is empty when every value is None
HasFields(d) == {k \in DOMAIN d : d[k].t # "none"} # {}

\* lines 302-326: _write_influx reaches urlopen, which can raise
WritesInflux(d) == influx /\ HasFields(d)

(***************************************************************************)
(* The poll cycle: _async_update_data and _poll_once, one action per       *)
(* blocking call.                                                          *)
(***************************************************************************)
Family(d) == IF "protocol_family" \in DOMAIN d THEN d["protocol_family"].v ELSE "none"

\* line 158
protocol(live) == IF "protocol_family" \in DOMAIN live THEN PyStr(live["protocol_family"]) ELSE "unknown"

Issue(site, role, ok) == Append(issued, [cmd |-> Sites[site].cmd, site |-> site, role |-> role, ok |-> ok])

\* an enrich phase that always takes the Megatec branch
AfterPrimaryMegatec(live) == "I"

\* lines 164, 188: the enrich branch chosen by the dialect of the primary answer
AfterPrimary(live) == IF protocol(live) = "centurion" THEN "Q1_legacy" ELSE "I"

\* a cycle that starts with the primary query of the dialect stored in self.data
UpdateStartRemembering ==
    /\ pc \in {"idle", "done"}
    /\ cyclesLeft > 0
    /\ cyclesLeft' = cyclesLeft - 1
    /\ pc' = IF Family(data) = "megatec" THEN "Q1" ELSE "QGS"
    /\ live_data' = EmptyMap
    /\ identity_data' = EmptyMap
    /\ ratings_data' = EmptyMap
    /\ mode_data' = EmptyMap
    /\ firmware_data' = EmptyMap
    /\ result' = EmptyMap
    /\ issued' = << >>
    /\ probe' = "none"
    /\ outcome' = "none"
    /\ UNCHANGED <<data, influx, universe, r1>>
    /\ UNCHANGED <<xvars, svcvars, parsevars, readvars>>

\* lines 328-330 and 141-143, 159-162: a cycle starts
UpdateStart ==
    /\ pc \in {"idle", "done"}
    /\ cyclesLeft > 0
    /\ cyclesLeft' = cyclesLeft - 1
    /\ pc' = "QGS"
    /\ live_data' = EmptyMap
    /\ identity_data' = EmptyMap
    /\ ratings_data' = EmptyMap
    /\ mode_data' = EmptyMap
    /\ firmware_data' = EmptyMap
    /\ result' = EmptyMap
    /\ issued' = << >>
    /\ probe' = "none"
    /\ outcome' = "none"
    /\ UNCHANGED <<data, influx, universe, r1>>
    /\ UNCHANGED <<xvars, svcvars, parsevars, readvars>>

\* lines 145-149
PrimaryQGS ==
    /\ pc = "QGS"
    /\ \E o \in Exchanges[universe]["QGS"] :
        /\ issued' = Issue("QGS", "primary", o.ok)
        /\ IF o.ok
           THEN live_data' = o.data /\ pc' = AfterPrimary(o.data)
           ELSE live_data' = live_data /\ pc' = "Q1"
    /\ UNCHANGED <<data, identity_data, ratings_data, mode_data, firmware_data, result,
                   probe, outcome, influx, universe, cyclesLeft, r1>>
    /\ UNCHANGED <<xvars, svcvars, parsevars, readvars>>

\* a Q1 fallback whose failure is logged like an enrich failure
PrimaryQ1Optional ==
    /\ pc = "Q1"
    /\ \E o \in Exchanges[universe]["Q1"] :
        /\ issued' = Issue("Q1", "primary", o.ok)
        /\ live_data' = IF o.ok THEN o.data ELSE live_data
    /\ pc' = "I"
    /\ UNCHANGED <<data, identity_data, ratings_data, mode_data, firmware_data, result,
                   probe, outcome, influx, universe, cyclesLeft, r1>>
    /\ UNCHANGED <<xvars, svcvars, parsevars, readvars>>

\* lines 151-156
PrimaryQ1 ==
    /\ pc = "Q1"
    /\ \E o \in Exchanges[universe]["Q1"] :
        /\ issued' = Issue("Q1", "primary", o.ok)
        /\ IF o.ok
           THEN live_data' = o.data /\ pc' = AfterPrimary(o.data)
           ELSE live_data' = live_data /\ pc' = "probe"
    /\ UNCHANGED <<data, identity_data, ratings_data, mode_data, firmware_data, result,
                   probe, outcome, influx, universe, cyclesLeft, r1>>
    /\ UNCHANGED <<xvars, svcvars, parsevars, readvars>>

\* a legacy Q1 follow-up whose whole mapping is merged into the snapshot
LegacyQ1MergeAll ==
    /\ pc = "Q1_legacy"
    /\ \E o \in Exchanges[universe]["Q1_legacy"] :
        /\ issued' = Issue("Q1_legacy", "enrich", o.ok)
        /\ live_data' = IF o.ok THEN Update(live_data, o.data) ELSE live_data
    /\ pc' = "QMD"
    /\ UNCHANGED <<data, identity_data, ratings_data, mode_data, firmware_data, result,
                   probe, outcome, influx, universe, cyclesLeft, r1>>
    /\ UNCHANGED <<xvars, svcvars, parsevars, readvars>>

\* a legacy Q1 follow-up whose answer is dropped
LegacyQ1Dropped ==
    /\ pc = "Q1_legacy"
    /\ \E o \in Exchanges[universe]["Q1_legacy"] :
        /\ issued' = Issue("Q1_legacy", "enrich", o.ok)
        /\ live_data' = live_data
    /\ pc' = "QMD"
    /\ UNCHANGED <<data, identity_data, ratings_data, mode_data, firmware_data, result,
                   probe, outcome, influx, universe, cyclesLeft, r1>>
    /\ UNCHANGED <<xvars, svcvars, parsevars, readvars>>

\* lines 165-171
LegacyQ1 ==
    /\ pc = "Q1_legacy"
    /\ \E o \in Exchanges[universe]["Q1_legacy"] :
        /\ issued' = Issue("Q1_legacy", "enrich", o.ok)
        /\ live_data' = IF o.ok /\ Get(o.data, "fault_voltage").t # "none"
                        THEN Put(live_data, "fault_voltage", o.data["fault_voltage"])
                        ELSE live_data
    /\ pc' = "QMD"
    /\ UNCHANGED <<data, identity_data, ratings_data, mode_data, firmware_data, result,
                   probe, outcome, influx, universe, cyclesLeft, r1>>
    /\ UNCHANGED <<xvars, svcvars, parsevars, readvars>>

\* lines 172-175
EnrichQMD ==
    /\ pc = "QMD"
    /\ \E o \in Exchanges[universe]["QMD"] :
        /\ issued' = Issue("QMD", "enrich", o.ok)
        /\ identity_data' = IF o.ok THEN o.data ELSE identity_data
    /\ pc' = "QRI"
    /\ UNCHANGED <<data, live_data, ratings_data, mode_data, firmware_data, result,
                   probe, outcome, influx, universe, cyclesLeft, r1>>
    /\ UNCHANGED <<xvars, svcvars, parsevars, readvars>>

\* a ratings follow-up after which the Megatec ratings are asked for too
EnrichQRIThenF ==
    /\ pc = "QRI"
    /\ \E o \in Exchanges[universe]["QRI"] :
        /\ issued' = Issue("QRI", "enrich", o.ok)
        /\ ratings_data' = IF o.ok THEN o.data ELSE ratings_data
    /\ pc' = "F"
    /\ UNCHANGED <<data, live_data, identity_data, mode_data, firmware_data, result,
                   probe, outcome, influx, universe, cyclesLeft, r1>>
    /\ UNCHANGED <<xvars, svcvars, parsevars, readvars>>

\* lines 176-179
EnrichQRI ==
    /\ pc = "QRI"
    /\ \E o \in Exchanges[universe]["QRI"] :
        /\ issued' = Issue("QRI", "enrich", o.ok)
        /\ ratings_data' = IF o.ok THEN o.data ELSE ratings_data
    /\ pc' = "QMOD"
    /\ UNCHANGED <<data, live_data, identity_data, mode_data, firmware_data, result,
                   probe, outcome, influx, universe, cyclesLeft, r1>>
    /\ UNCHANGED <<xvars, svcvars, parsevars, readvars>>

\* lines 180-183
EnrichQMOD ==
    /\ pc = "QMOD"
    /\ \E o \in Exchanges[universe]["QMOD"] :
        /\ issued' = Issue("QMOD", "enrich", o.ok)
        /\ mode_data' = IF o.ok THEN o.data ELSE mode_data
    /\ pc' = "QVFW"
    /\ UNCHANGED <<data, live_data, identity_data, ratings_data, firmware_data, result,
                   probe, outcome, influx, universe, cyclesLeft, r1>>
    /\ UNCHANGED <<xvars, svcvars, parsevars, readvars>>

\* lines 184-187
EnrichQVFW ==
    /\ pc = "QVFW"
    /\ \E o \in Exchanges[universe]["QVFW"] :
        /\ issued' = Issue("QVFW", "enrich", o.ok)
        /\ firmware_data' = IF o.ok THEN o.data ELSE firmware_data
    /\ pc' = "derive"
    /\ UNCHANGED <<data, live_data, identity_data, ratings_data, mode_data, result,
                   probe, outcome, influx, universe, cyclesLeft, r1>>
    /\ UNCHANGED <<xvars, svcvars, parsevars, readvars>>

\* lines 189-192
EnrichI ==
    /\ pc = "I"
    /\ \E o \in Exchanges[universe]["I"] :
        /\ issued' = Issue("I", "enrich", o.ok)
        /\ identity_data' = IF o.ok THEN o.data ELSE identity_data
    /\ pc' = "F"
    /\ UNCHANGED <<data, live_data, ratings_data, mode_data, firmware_data, result,
                   probe, outcome, influx, universe, cyclesLeft, r1>>
    /\ UNCHANGED <<xvars, svcvars, parsevars, readvars>>

\* lines 193-196
EnrichF ==
    /\ pc = "F"
    /\ \E o \in Exchanges[universe]["F"] :
        /\ issued' = Issue("F", "enrich", o.ok)
        /\ ratings_data' = IF o.ok THEN o.data ELSE ratings_data
    /\ pc' = "derive"
    /\ UNCHANGED <<data, live_data, identity_data, mode_data, firmware_data, result,
                   probe, outcome, influx, universe, cyclesLeft, r1>>
    /\ UNCHANGED <<xvars, svcvars, parsevars, readvars>>

\* a poll that merges its mappings onto the stored result
PollReturnOntoStored ==
    /\ pc = "derive"
    /\ result' = Update(data, Derive(live_data, identity_data, ratings_data, mode_data,
                                     firmware_data))
    /\ pc' = "export"
    /\ UNCHANGED <<data, live_data, identity_data, ratings_data, mode_data, firmware_data,
                   issued, probe, outcome, influx, universe, cyclesLeft, r1>>
    /\ UNCHANGED <<xvars, svcvars, parsevars, readvars>>

\* lines 198-227 and 330: _poll_once returns its mapping
PollReturn ==
    /\ pc = "derive"
    /\ result' = Derive(live_data, identity_data, ratings_data, mode_data, firmware_data)
    /\ pc' = "export"
    /\ UNCHANGED <<data, live_data, identity_data, ratings_data, mode_data, firmware_data,
                   issued, probe, outcome, influx, universe, cyclesLeft, r1>>
    /\ UNCHANGED <<xvars, svcvars, parsevars, readvars>>

\* lines 331-332: the export returns and the cycle returns the polled mapping,
\* which the update coordinator stores as self.data
ExportReturn ==
    /\ pc = "export"
    /\ data' = result
    /\ outcome' = "ok"
    /\ r1' = result
    /\ pc' = "done"
    /\ UNCHANGED <<live_data, identity_data, ratings_data, mode_data, firmware_data,
                   result, issued, probe, influx, universe, cyclesLeft>>
    /\ UNCHANGED <<xvars, svcvars, parsevars, readvars>>

\* lines 331, 333: urlopen raises inside the try block
ExportRaise ==
    /\ pc = "export"
    /\ WritesInflux(result)
    /\ pc' = "probe"
    /\ UNCHANGED <<data, live_data, identity_data, ratings_data, mode_data, firmware_data,
                   result, issued, probe, outcome, influx, universe, cyclesLeft, r1>>
    /\ UNCHANGED <<xvars, svcvars, parsevars, readvars>>

\* lines 333-338 and 229-234: the except block probes the adapter
Probe ==
    /\ pc = "probe"
    /\ \E adapter_connected \in BOOLEAN :
        /\ probe' = IF adapter_connected THEN "up" ELSE "down"
        /\ result' = FailedResult(data, adapter_connected)
    /\ pc' = "export_failed"
    /\ UNCHANGED <<data, live_data, identity_data, ratings_data, mode_data, firmware_data,
                   issued, outcome, influx, universe, cyclesLeft, r1>>
    /\ UNCHANGED <<xvars, svcvars, parsevars, readvars>>

PrimaryFailed == Len(issued) = 2 /\ ~issued[1].ok /\ ~issued[2].ok

\* lines 340-341: the export returns and the cycle returns the carried-forward mapping
FailedReturn ==
    /\ pc = "export_failed"
    /\ data' = result
    /\ outcome' = "failed"
    /\ r1' = IF PrimaryFailed THEN r1 ELSE EmptyMap
    /\ pc' = "done"
    /\ UNCHANGED <<live_data, identity_data, ratings_data, mode_data, firmware_data,
                   result, issued, probe, influx, universe, cyclesLeft>>
    /\ UNCHANGED <<xvars, svcvars, parsevars, readvars>>

\* line 340: urlopen raises inside the except block; the exception leaves
\* _async_update_data and self.data keeps its value
FailedRaise ==
    /\ pc = "export_failed"
    /\ WritesInflux(result)
    /\ outcome' = "raised"
    /\ r1' = IF PrimaryFailed THEN r1 ELSE EmptyMap
    /\ pc' = "done"
    /\ UNCHANGED <<data, live_data, identity_data, ratings_data, mode_data,
                   firmware_data, result, issued, probe, influx, universe, cyclesLeft>>
    /\ UNCHANGED <<xvars, svcvars, parsevars, readvars>>

InitWith(u, n) ==
    /\ data = EmptyMap
    /\ pc = "idle"
    /\ live_data = EmptyMap
    /\ identity_data = EmptyMap
    /\ ratings_data = EmptyMap
    /\ mode_data = EmptyMap
    /\ firmware_data = EmptyMap
    /\ result = EmptyMap
    /\ issued = << >>
    /\ probe = "none"
    /\ outcome = "none"
    /\ influx \in BOOLEAN
    /\ universe = u
    /\ cyclesLeft = n
    /\ r1 = EmptyMap

\* no exchange, command or service call is running
NoJob == [kind |-> "none"]
NoAnswer == [ok |-> FALSE, raw |-> "", data |-> EmptyMap, last_error |-> "none"]
NoRequest == [service |-> "none"]

NoCall ==
    /\ job = NoJob
    /\ xpc = "idle"
    /\ attempt = 1
    /\ payload_idx = 1
    /\ frame_idx = 1
    /\ last_err = "none"
    /\ answer = NoAnswer
    /\ stale = 0
    /\ connects = 0
    /\ sends = 0
    /\ frames = 0
    /\ open = 0
    /\ wire = << >>

NoParsed == [parser |-> "none", ok |-> FALSE, data |-> EmptyMap]

NoService == request = NoRequest /\ svc = "idle"

NoGiven == [kind |-> "none", lead |-> "", sep |-> "", tokens |-> << >>]

NoParse == given = NoGiven /\ raw_frame = "" /\ parsed = NoParsed

NoRead ==
    /\ stream = << >>
    /\ closes = FALSE
    /\ taken = 0
    /\ buffer = << >>
    /\ rpc = "idle"
    /\ returns = << >>

\* lines 25-61: a coordinator after construction, polled MaxCycles times
Init == InitWith("narrow", MaxCycles) /\ NoCall /\ NoService /\ NoParse /\ NoRead

Next ==
    \/ UpdateStart
    \/ PrimaryQGS
    \/ PrimaryQ1
    \/ LegacyQ1
    \/ EnrichQMD
    \/ EnrichQRI
    \/ EnrichQMOD
    \/ EnrichQVFW
    \/ EnrichI
    \/ EnrichF
    \/ PollReturn
    \/ ExportReturn
    \/ ExportRaise
    \/ Probe
    \/ FailedReturn
    \/ FailedRaise

Spec == Init /\ [][Next]_vars

\* one poll cycle of a new coordinator against every status setting
InitSnapshot == InitWith("wide", 1) /\ NoCall /\ NoService /\ NoParse /\ NoRead

SpecSnapshot == InitSnapshot /\ [][Next]_vars

(***************************************************************************)
(* _exchange_with_retry and _send_command_with_retry, one socket operation *)
(* at a time.  job is the running call and its adapter script; connects,   *)
(* sends and frames count the create_connection, sendall and _read_frame   *)
(* calls of the call; open counts its open sockets.                        *)
(***************************************************************************)
CommandRetries == 3
CommandFramesPerTry == 6
MaxStale == 1

CommandAnswers == {"(ACK", NakFrame}

CommandScripts ==
    {q \o <<last>> :
        q \in FailingPrefixes(MaxFailedAttempts),
        last \in FailingAttempts \cup
                 {Attempt(TRUE, TRUE, 0, n \o <<Frame(f)>>) : n \in Noises, f \in CommandAnswers}}

ExchangeJob(site, script) ==
    [kind |-> "exchange", cmd |-> Sites[site].cmd, parser |-> Sites[site].parser,
     retries |-> Sites[site].retries, frames_per_try |-> Sites[site].frames_per_try,
     script |-> script]

CommandJob(command, script) ==
    [kind |-> "command", cmd |-> command, parser |-> "none", retries |-> CommandRetries,
     frames_per_try |-> CommandFramesPerTry, script |-> script]

ExchangeJobs ==
    UNION {{ExchangeJob(site, s) : s \in Scripts(Sites[site].cmd, "narrow")} :
           site \in DOMAIN Sites}

CommandJobs == {CommandJob(c, s) : c \in {"Q", "CT"}, s \in CommandScripts}

\* the adapter's behaviour on the current connection attempt
Att == ScriptAt(job.script, attempt)

\* the number of the _read_frame call within the attempt
Idx == (payload_idx - 1) * job.frames_per_try + frame_idx

\* every non-empty frame ends the call
AcceptsAnyFrame(j, raw) == raw # ""

\* a frame ends an exchange whose parser accepts it, and never a command
AcceptsParsedOnly(j, raw) ==
    /\ raw # ""
    /\ j.kind = "exchange"
    /\ ParseFrame(j.parser, raw).ok

\* lines 120-124 and 246-248: the frame ends the call
Accepts(j, raw) ==
    /\ raw # ""
    /\ j.kind = "exchange" => ParseFrame(j.parser, raw).ok

\* lines 121-126: last_error after a frame was ignored
Ignored(j, raw, err) ==
    IF j.kind = "command" THEN err
    ELSE IF raw = "" THEN "empty" ELSE "parse"

\* a retry loop that makes one attempt more
HasRetryOneMore(a, retries) == a <= retries

\* a retry loop that gives up after the first attempt
HasRetryNever(a, retries) == FALSE

\* lines 108 and 255: the for loop has another attempt
HasRetry(a, retries) == a < retries

\* lines 122-123, 124 and 258-260: what the call returns for an accepted frame
Answer(j, raw, err) ==
    [ok |-> TRUE, raw |-> raw,
     data |-> IF j.kind = "exchange" THEN ParseFrame(j.parser, raw).data ELSE EmptyMap,
     last_error |-> err]

\* lines 138 and 264: the call raises with the last error
Raised(err) == [ok |-> FALSE, raw |-> "", data |-> EmptyMap, last_error |-> err]

\* line 260: _send_command_once returned ""
NoResponse(err) == [ok |-> TRUE, raw |-> "NO_RESPONSE", data |-> EmptyMap, last_error |-> err]

\* a retry loop that makes its next attempt on the socket of the failed one
RetryOnSameSocket(err) ==
    /\ last_err' = err
    /\ payload_idx' = 1
    /\ frame_idx' = 1
    /\ IF HasRetry(attempt, job.retries)
       THEN /\ attempt' = attempt + 1
            /\ xpc' = IF xpc = "connect" THEN "connect" ELSE "send"
            /\ answer' = answer
       ELSE attempt' = attempt /\ xpc' = "raised" /\ answer' = Raised(err)

\* lines 108-138 and 255-264: an attempt ended without a result
Retry(err) ==
    /\ last_err' = err
    /\ payload_idx' = 1
    /\ frame_idx' = 1
    /\ IF HasRetry(attempt, job.retries)
       THEN attempt' = attempt + 1 /\ xpc' = "connect" /\ answer' = answer
       ELSE attempt' = attempt /\ xpc' = "raised" /\ answer' = Raised(err)

\* a command whose silent attempt is retried like a failed one
AttemptOverRetry(err) == Retry(err)

\* lines 250-251 and 257-260: an attempt of a command read no frame;
\* lines 108, 138: an attempt of an exchange parsed no frame
AttemptOver(err) ==
    IF job.kind = "command"
    THEN /\ xpc' = "returned"
         /\ answer' = NoResponse(err)
         /\ last_err' = err
         /\ UNCHANGED <<attempt, payload_idx, frame_idx>>
    ELSE Retry(err)

\* a call starts: lines 102-107 and 237-241, 254
Call(j) ==
    /\ xpc = "idle"
    /\ job' = j
    /\ xpc' = "connect"
    /\ attempt' = 1
    /\ payload_idx' = 1
    /\ frame_idx' = 1
    /\ last_err' = "none"
    /\ answer' = NoAnswer
    /\ stale' = 0
    /\ connects' = 0
    /\ sends' = 0
    /\ frames' = 0
    /\ open' = 0
    /\ wire' = << >>

CallExchange ==
    /\ xpc = "idle"
    /\ \E j \in ExchangeJobs : Call(j)
    /\ UNCHANGED <<pollvars, svcvars, parsevars, readvars>>

CallCommand ==
    /\ xpc = "idle"
    /\ \E j \in CommandJobs : Call(j)
    /\ UNCHANGED <<pollvars, svcvars, parsevars, readvars>>

\* a socket operation of the call on its conn-th connection, made by the
\* running attempt
Event(op, conn, text, err) ==
    [op |-> op, conn |-> conn, att |-> attempt, text |-> text, err |-> err]

\* a with block that leaves its socket open
CloseNever == open' = open

\* lines 110 and 242: the with block is left, by return or by an exception,
\* and closes its socket
Close == open' = open - 1

\* lines 110-111 and 242-243: socket.create_connection
Connect ==
    /\ xpc = "connect"
    /\ connects' = connects + 1
    /\ wire' = Append(wire, Event("connect", connects + 1, "", ~Att.connect))
    /\ IF Att.connect
       THEN /\ open' = open + 1
            /\ xpc' = "drain"
            /\ UNCHANGED <<attempt, payload_idx, frame_idx, last_err, answer>>
       ELSE /\ open' = open
            /\ Retry("transport")
    /\ UNCHANGED <<job, stale, sends, frames>>
    /\ UNCHANGED <<pollvars, svcvars, parsevars, readvars>>

\* the adapter sends stale bytes while the socket is drained
AdapterEmits ==
    /\ xpc = "drain"
    /\ stale < MaxStale
    /\ stale' = stale + 1
    /\ UNCHANGED <<job, xpc, attempt, payload_idx, frame_idx, last_err, answer, connects,
                   sends, frames, open, wire>>
    /\ UNCHANGED <<pollvars, svcvars, parsevars, readvars>>

\* lines 63-73: one recv of _drain_socket; a chunk keeps the loop going, a
\* timeout ends it, another error leaves the with block
DrainRecv ==
    /\ xpc = "drain"
    /\ IF stale > 0
       THEN /\ stale' = stale - 1
            /\ UNCHANGED <<xpc, attempt, payload_idx, frame_idx, last_err, answer, open, wire>>
       ELSE /\ stale' = stale
            /\ wire' = Append(wire, Event("drain", connects, "", ~Att.drain))
            /\ IF Att.drain
               THEN /\ xpc' = "send"
                    /\ UNCHANGED <<attempt, payload_idx, frame_idx, last_err, answer, open>>
               ELSE /\ Close
                    /\ Retry("transport")
    /\ UNCHANGED <<job, connects, sends, frames>>
    /\ UNCHANGED <<pollvars, svcvars, parsevars, readvars>>

\* lines 116-117 and 245-246: sendall of the next terminator variant
SendAll ==
    /\ xpc = "send"
    /\ wire' = Append(wire, Event("send", connects, job.cmd \o Payloads[payload_idx],
                                  Att.sendFail = payload_idx))
    /\ IF Att.sendFail = payload_idx
       THEN /\ Close
            /\ sends' = sends
            /\ Retry("transport")
       ELSE /\ sends' = sends + 1
            /\ xpc' = "read"
            /\ frame_idx' = 1
            /\ UNCHANGED <<attempt, payload_idx, last_err, answer, open>>
    /\ UNCHANGED <<job, stale, connects, frames>>
    /\ UNCHANGED <<pollvars, svcvars, parsevars, readvars>>

\* lines 118-134 and 247-249: one _read_frame call and what the loops do with it
ReadFrame ==
    /\ xpc = "read"
    /\ frames' = frames + 1
    /\ wire' = Append(wire, Event("read", connects, ReadAt(Att, Idx).raw, ReadAt(Att, Idx).err))
    /\ IF ReadAt(Att, Idx).err
       THEN /\ Close
            /\ Retry("transport")
       ELSE IF Accepts(job, ReadAt(Att, Idx).raw)
       THEN /\ Close
            /\ xpc' = "returned"
            /\ answer' = Answer(job, ReadAt(Att, Idx).raw, last_err)
            /\ UNCHANGED <<attempt, payload_idx, frame_idx, last_err>>
       ELSE IF frame_idx < job.frames_per_try
       THEN /\ frame_idx' = frame_idx + 1
            /\ last_err' = Ignored(job, ReadAt(Att, Idx).raw, last_err)
            /\ UNCHANGED <<xpc, attempt, payload_idx, answer, open>>
       ELSE IF payload_idx < Len(Payloads)
       THEN /\ payload_idx' = payload_idx + 1
            /\ frame_idx' = 1
            /\ xpc' = "send"
            /\ last_err' = Ignored(job, ReadAt(Att, Idx).raw, last_err)
            /\ UNCHANGED <<attempt, answer, open>>
       ELSE /\ Close
            /\ AttemptOver(Ignored(job, ReadAt(Att, Idx).raw, last_err))
    /\ UNCHANGED <<job, stale, connects, sends>>
    /\ UNCHANGED <<pollvars, svcvars, parsevars, readvars>>

\* calls of _exchange_with_retry and _send_command_with_retry on an idle coordinator
InitExchange == InitWith("narrow", 0) /\ NoCall /\ NoService /\ NoParse /\ NoRead

NextExchange ==
    \/ CallExchange
    \/ CallCommand
    \/ Connect
    \/ AdapterEmits
    \/ DrainRecv
    \/ SendAll
    \/ ReadFrame

SpecExchange == InitExchange /\ [][NextExchange]_vars

(***************************************************************************)
(* The control services of __init__.py.  A handler builds its command,     *)
(* awaits coordinator.async_send_command and then requests a refresh.      *)
(***************************************************************************)
RECURSIVE DigitStr(_)
\* the decimal digits of n >= 0
DigitStr(n) ==
    IF n < 10 THEN Ch("0123456789", n + 1)
    ELSE DigitStr(n \div 10) \o Ch("0123456789", (n % 10) + 1)

\* "0" * (width - len(s)) + s
ZeroFill(s, width) == Slice("0000", 1, width - Len(s)) \o s

\* f"{n:0{width}d}": the sign counts in the width
Format(n, width) ==
    IF n < 0 THEN "-" \o ZeroFill(DigitStr(-n), width - 1) ELSE ZeroFill(DigitStr(n), width)

\* raise vol.Invalid(...) / return command
Invalid == [ok |-> FALSE, command |-> ""]
Built(command) == [ok |-> TRUE, command |-> command]

_build_test_command(minutes, until_low) ==
    IF until_low THEN Built("TL")
    ELSE IF minutes.t # "none"
    THEN IF minutes.v < 1 \/ minutes.v > 99 THEN Invalid
         ELSE Built("T" \o Format(minutes.v, 2))
    ELSE Built("T")

\* a shutdown command whose restart value is not range-checked
_build_shutdown_command_any_restart(delay_minutes, restart_minutes) ==
    IF delay_minutes < 0 \/ delay_minutes > 9999 THEN Invalid
    ELSE IF restart_minutes.t = "none" THEN Built("S" \o Format(delay_minutes, 4))
    ELSE Built("S" \o Format(delay_minutes, 4) \o "R" \o Format(restart_minutes.v, 4))

_build_shutdown_command(delay_minutes, restart_minutes) ==
    IF delay_minutes < 0 \/ delay_minutes > 9999 THEN Invalid
    ELSE IF restart_minutes.t = "none" THEN Built("S" \o Format(delay_minutes, 4))
    ELSE IF restart_minutes.v < 0 \/ restart_minutes.v > 9999 THEN Invalid
    ELSE Built("S" \o Format(delay_minutes, 4) \o "R" \o Format(restart_minutes.v, 4))

\* the service data the model sends
TestMinutes == {NoneV, IntV(0), IntV(1), IntV(5), IntV(99), IntV(100)}
DelayMinutes == {-1, 0, 5, 9999, 10000}
RestartMinutes == {NoneV, IntV(-1), IntV(0), IntV(30), IntV(9999), IntV(10000)}

\* the adapter during a service's command: one behaviour, repeated per attempt
ServiceScripts == {s \in CommandScripts : Len(s) = 1}

\* the handler up to its first await: the command is built and handed to
\* async_send_command, or vol.Invalid leaves the handler
Handle(service, minutes, until_low, delay_minutes, restart_minutes, built, script) ==
    /\ xpc = "idle"
    /\ request' = [service |-> service, minutes |-> minutes, until_low |-> until_low,
                   delay_minutes |-> delay_minutes, restart_minutes |-> restart_minutes]
    /\ IF built.ok
       THEN svc' = "sending" /\ Call(CommandJob(built.command, script))
       ELSE svc' = "rejected" /\ UNCHANGED xvars
    /\ UNCHANGED <<pollvars, parsevars, readvars>>

\* lines 117-119
async_toggle_beeper ==
    /\ svc = "idle"
    /\ \E s \in ServiceScripts :
         Handle("toggle_beeper", NoneV, FALSE, 0, NoneV, Built("Q"), s)

\* lines 123-126
async_start_battery_test ==
    /\ svc = "idle"
    /\ \E minutes \in TestMinutes, until_low \in BOOLEAN, s \in ServiceScripts :
         Handle("start_battery_test", minutes, until_low, 0, NoneV,
                _build_test_command(minutes, until_low), s)

\* lines 136-139
async_shutdown ==
    /\ svc = "idle"
    /\ \E delay_minutes \in DelayMinutes, restart_minutes \in RestartMinutes,
          s \in ServiceScripts :
         Handle("shutdown", NoneV, FALSE, delay_minutes, restart_minutes,
                _build_shutdown_command(delay_minutes, restart_minutes), s)

\* a handler that stores the response of its command in self.data
AfterCommandStoring ==
    /\ svc = "sending"
    /\ xpc \in {"returned", "raised"}
    /\ svc' = IF xpc = "returned" THEN "refresh_requested" ELSE "failed"
    /\ data' = Put(data, "response", StrV(answer.raw))
    /\ UNCHANGED <<request, xvars, parsevars, readvars>>
    /\ UNCHANGED <<pc, live_data, identity_data, ratings_data, mode_data, firmware_data,
                   result, issued, probe, outcome, influx, universe, cyclesLeft, r1>>

\* lines 119-121, 126-128, 139-141: async_send_command returned and the
\* handler requests a refresh, or it raised and the handler ends with it
AfterCommand ==
    /\ svc = "sending"
    /\ xpc \in {"returned", "raised"}
    /\ svc' = IF xpc = "returned" THEN "refresh_requested" ELSE "failed"
    /\ UNCHANGED <<request, xvars, pollvars, parsevars, readvars>>

InitService == InitWith("narrow", 0) /\ NoCall /\ NoService /\ NoParse /\ NoRead

NextService ==
    \/ async_toggle_beeper
    \/ async_start_battery_test
    \/ async_shutdown
    \/ AfterCommand
    \/ Connect
    \/ AdapterEmits
    \/ DrainRecv
    \/ SendAll
    \/ ReadFrame

SpecService == InitService /\ [][NextService]_vars

\* an exchange that reads a frame left over from another command before
\* the answer to its own
StaleFrames(cmd) == AllFrames \ AnswerFrames(cmd, "wide")

StaleJobs ==
    UNION {{ExchangeJob(site, <<Attempt(TRUE, TRUE, 0, <<Frame(f), Frame(g)>>)>>) :
                f \in StaleFrames(Sites[site].cmd),
                g \in AnswerFrames(Sites[site].cmd, "narrow")} :
           site \in DOMAIN Sites}
    \cup
    UNION {{ExchangeJob(site, <<Attempt(TRUE, TRUE, 0, <<Frame(f)>>)>>) :
                f \in StaleFrames(Sites[site].cmd)} :
           site \in DOMAIN Sites}

CallStale ==
    /\ xpc = "idle"
    /\ \E j \in StaleJobs : Call(j)
    /\ UNCHANGED <<pollvars, svcvars, parsevars, readvars>>

NextStale ==
    \/ CallStale
    \/ Connect
    \/ AdapterEmits
    \/ DrainRecv
    \/ SendAll
    \/ ReadFrame

SpecStale == InitExchange /\ [][NextStale]_vars

(***************************************************************************)
(* The parsers as pure functions: a frame is put together from a wrapper   *)
(* and tokens, and one parser is applied to it.  parse_q1 and parse_i      *)
(* exist twice, in custom_components/livigy_ups/parser.py and in           *)
(* src/livigy_ups_bridge/parser.py.                                        *)
(***************************************************************************)
\* src/livigy_ups_bridge/parser.py, parse_q1: float() and int(float()) on
\* the tokens as they are, the result a Q1Status
bridge_parse_q1(raw) ==
    With(Split(_strip_wrapping(raw)), LAMBDA parts :
    IF Len(parts) < 8 THEN ParseError
    ELSE With(parts[8], LAMBDA bitfield :
    IF ~IsBits(bitfield, 8) THEN ParseError
    ELSE IF \E i \in 1..7 : ~PyFloat(parts[i]).ok THEN ParseError
    ELSE Parsed(
        [input_voltage |-> PyFloat(parts[1]).val,
         fault_voltage |-> PyFloat(parts[2]).val,
         output_voltage |-> PyFloat(parts[3]).val,
         load_percent |-> TruncFloat(PyFloat(parts[4]).val),
         input_frequency_hz |-> PyFloat(parts[5]).val,
         battery_voltage |-> PyFloat(parts[6]).val,
         temperature_c |-> PyFloat(parts[7]).val,
         utility_fail |-> BoolV(Ch(bitfield, 1) = "1"),
         battery_low |-> BoolV(Ch(bitfield, 2) = "1"),
         avr_active |-> BoolV(Ch(bitfield, 3) = "1"),
         ups_failed |-> BoolV(Ch(bitfield, 4) = "1"),
         standby_type |-> BoolV(Ch(bitfield, 5) = "1"),
         test_in_progress |-> BoolV(Ch(bitfield, 6) = "1"),
         shutdown_active |-> BoolV(Ch(bitfield, 7) = "1"),
         beeper_on |-> BoolV(Ch(bitfield, 8) = "1")])))

\* src/livigy_ups_bridge/parser.py, parse_i: never raises
bridge_parse_i(raw) ==
    With(Strip(LStripHash(Strip(raw))), LAMBDA payload :
    With(Split(payload), LAMBDA parts :
        IF Len(parts) < 3
        THEN Parsed([company |-> StrV(""), model |-> StrV(payload), firmware |-> StrV("")])
        ELSE Parsed([company |-> StrV(parts[1]), model |-> StrV(parts[2]),
                     firmware |-> StrV(Join(SubSeq(parts, 3, Len(parts))))])))

\* the tokens of a frame with sep between them
RECURSIVE Spaced(_, _)
Spaced(tokens, sep) ==
    IF Len(tokens) = 0 THEN ""
    ELSE IF Len(tokens) = 1 THEN tokens[1]
    ELSE tokens[1] \o sep \o Spaced(Tail(tokens), sep)

Given(kind, lead, sep, tokens) == [kind |-> kind, lead |-> lead, sep |-> sep, tokens |-> tokens]

\* the frame as the device writes it
Written(g) == g.lead \o Spaced(g.tokens, g.sep)

\* <<a, b, ...>> with token k replaced
Replaced(tokens, k, token) == [i \in 1..Len(tokens) |-> IF i = k THEN token ELSE tokens[i]]

\* decimal literals and the values float() and int(float()) give them
Literals ==
    [x \in {"219.7", "140.0", "221.3", "099", "50.0", "27.3", "30.0", "000", "100.9",
            "-05.50", "7"} |->
        CASE x = "219.7" -> [f |-> FloatV(2197, 1), i |-> IntV(219)]
          [] x = "140.0" -> [f |-> FloatV(140, 0), i |-> IntV(140)]
          [] x = "221.3" -> [f |-> FloatV(2213, 1), i |-> IntV(221)]
          [] x = "099" -> [f |-> FloatV(99, 0), i |-> IntV(99)]
          [] x = "50.0" -> [f |-> FloatV(50, 0), i |-> IntV(50)]
          [] x = "27.3" -> [f |-> FloatV(273, 1), i |-> IntV(27)]
          [] x = "30.0" -> [f |-> FloatV(30, 0), i |-> IntV(30)]
          [] x = "000" -> [f |-> FloatV(0, 0), i |-> IntV(0)]
          [] x = "100.9" -> [f |-> FloatV(1009, 1), i |-> IntV(100)]
          [] x = "-05.50" -> [f |-> FloatV(-55, 1), i |-> IntV(-5)]
          [] x = "7" -> [f |-> FloatV(7, 0), i |-> IntV(7)]]

\* the strings of n characters '0' and '1'
RECURSIVE Bitfields(_)
Bitfields(n) ==
    IF n = 0 THEN {""} ELSE {b \o c : b \in Bitfields(n - 1), c \in {"0", "1"}}

Q1Tokens == <<"219.7", "140.0", "221.3", "099", "50.0", "27.3", "30.0">>

\* token 7 of some frames is not a bitfield of 8 characters '0' and '1'
BadBitfields8 == {"0101010", "010101011", "01010120", "0101010x", "00000000.", "-0000001"}

Q1Given ==
    {Given("Q1", lead, " ", Q1Tokens \o <<bits>>) :
        lead \in {"(", ""}, bits \in Bitfields(8) \cup BadBitfields8}
    \cup {Given("Q1", "(", sep, Replaced(Q1Tokens, k, x) \o <<bits>>) :
            sep \in {" ", "  "}, k \in 1..7, x \in DOMAIN Literals,
            bits \in {"01010101", "10101010"}}
    \cup {Given("Q1", "(", " ", Replaced(Q1Tokens, k, x) \o <<"01010101">>) :
            k \in 1..7, x \in {"#219.7", "x", "1.2.3"}}
    \cup {Given("Q1", "(", " ", SubSeq(Q1Tokens, 1, n) \o <<"01010101">>) : n \in 5..6}

QGSTokens ==
    <<"219.7", "50.0", "221.3", "50.0", "7", "099", "140.0", "140.0", "27.3", "000", "30.0">>

BadBitfields12 == {"10000000000", "1000000000001", "100000000002", "10000000000x"}

QGSGiven ==
    {Given("QGS", "(", " ", QGSTokens \o <<bits>>) : bits \in Bitfields(12) \cup BadBitfields12}
    \cup {Given("QGS", lead, sep, QGSTokens \o <<bits, "7">>) :
            lead \in {"(", ""}, sep \in {" ", "  "},
            bits \in {"000000000000", "011010101001", "100101010110", "111111111111"}}
    \cup {Given("QGS", "(", " ", SubSeq(QGSTokens, 1, 10) \o <<"100000000001">>)}

\* identity payloads: names, and status and ratings payloads sent to the
\* identity parser
IGiven ==
    {Given("I", lead, sep, tokens) :
        lead \in {"", "#", "##", "# ", "("}, sep \in {" ", "  "},
        tokens \in {<<"LIVIGY", "PSH-1500", "FW1.03">>,
                    <<"LIVIGY", "PSH-1500", "FW", "1.03", "B">>,
                    <<"LIVIGY", "PSH-1500">>,
                    <<"PSH-1500">>,
                    <<"219.7", "PSH-1500", "FW1.03">>,
                    <<"-05.50", "PSH-1500", "FW1.03", "B">>,
                    <<"7", "PSH-1500">>,
                    <<"NAK">>}}

RatingsTokens == <<"219.7", "7", "27.3", "50.0">>

RatingsGiven ==
    {Given("ratings", lead, sep, tokens) :
        lead \in {"", "(", "#", "# ", "(#", "( "}, sep \in {" ", "  "},
        tokens \in {RatingsTokens, RatingsTokens \o <<"x">>, SubSeq(RatingsTokens, 1, 3),
                    <<"#219.7", "#7", "##27.3", "50.0">>,
                    <<"219.7", "x", "27.3", "50.0">>}}
    \cup {Given("ratings", "(", " ", Replaced(RatingsTokens, k, x)) :
            k \in 1..4, x \in DOMAIN Literals}

\* the characters a mode payload begins with
ModeCodes ==
    {"A", "B", "C", "D", "E", "F", "G", "H", "I", "J", "K", "L", "M", "N", "O", "P", "Q",
     "R", "S", "T", "U", "V", "W", "X", "Y", "Z", "b", "l", "t", "0", "1", "#", "?"}

QMODGiven ==
    {Given("QMOD", lead, "", <<code \o rest>>) :
        lead \in {"", "("}, code \in ModeCodes, rest \in {"", "x", " 1"}}
    \cup {Given("QMOD", lead, "", << >>) : lead \in {"", "(", " ", "( "}}

AllGiven == Q1Given \cup QGSGiven \cup IGiven \cup RatingsGiven \cup QMODGiven

\* parser(raw) has returned r.data or raised
Apply(parser, r) ==
    /\ parsed = NoParsed
    /\ parsed' = [parser |-> parser, ok |-> r.ok, data |-> r.data]
    /\ UNCHANGED <<given, raw_frame, pollvars, xvars, svcvars, readvars>>

CallParseQ1 ==
    /\ given.kind # "none"
    /\ Apply("parse_q1", parse_q1(raw_frame))

CallBridgeParseQ1 ==
    /\ given.kind # "none"
    /\ Apply("bridge.parse_q1", bridge_parse_q1(raw_frame))

CallParseQGS ==
    /\ given.kind # "none"
    /\ Apply("parse_qgs", parse_qgs(raw_frame))

CallParseI ==
    /\ given.kind # "none"
    /\ Apply("parse_i", parse_i(raw_frame))

CallBridgeParseI ==
    /\ given.kind # "none"
    /\ Apply("bridge.parse_i", bridge_parse_i(raw_frame))

CallParseF ==
    /\ given.kind # "none"
    /\ Apply("parse_f", parse_f(raw_frame))

CallParseQRI ==
    /\ given.kind # "none"
    /\ Apply("parse_qri", parse_qri(raw_frame))

CallParseQMOD ==
    /\ given.kind # "none"
    /\ Apply("parse_qmod", parse_qmod(raw_frame))

InitParser ==
    /\ InitWith("narrow", 0) /\ NoCall /\ NoService /\ NoRead
    /\ influx = FALSE
    /\ given \in AllGiven
    /\ raw_frame = Written(given)
    /\ parsed = NoParsed

NextParser ==
    \/ CallParseQ1
    \/ CallBridgeParseQ1
    \/ CallParseQGS
    \/ CallParseI
    \/ CallBridgeParseI
    \/ CallParseF
    \/ CallParseQRI
    \/ CallParseQMOD

SpecParser == InitParser /\ [][NextParser]_vars

(***************************************************************************)
(* _read_frame, one sock.recv(1) at a time (coordinator.py, lines 75-93).  *)
(* A byte is its value 0..255.  The peer of the socket sends `stream` and  *)
(* then, if `closes`, closes the connection; a byte that has not come when *)
(* the socket timeout runs out makes recv raise TimeoutError.              *)
(***************************************************************************)
CR == 13
LF == 10

\* line 86: chunk in (b"\r", b"\n")
IsTerminator(b) == b \in {CR, LF}

\* the bytes of the model: CR, LF, space, "B", "a" and the non-ASCII 0x80
Bytes == {CR, LF, 32, 66, 97, 128}

\* the longest stream of a run
MaxStream == 4

\* the _read_frame calls of a run: as many as the stream has room for frames
MaxReads == MaxStream \div 2

Streams == UNION {[1..n -> Bytes] : n \in 0..MaxStream}

\* line 91: the cap of the buffer
BufferCap == 4096

\* the character of an ASCII byte of the model
Chr(b) == CASE b = 32 -> " " [] b = 66 -> "B" [] b = 97 -> "a"
            [] b = CR -> "\r" [] b = LF -> "\n"

\* line 93: bytes(buffer).decode("ascii", errors="ignore")
RECURSIVE Decode(_)
Decode(bs) ==
    IF bs = << >> THEN ""
    ELSE (IF Head(bs) < 128 THEN Chr(Head(bs)) ELSE "") \o Decode(Tail(bs))

\* line 93: what _read_frame returns for its buffer
Text(bs) == Strip(Decode(bs))

\* line 93: _read_frame returns
Return(end, bs, pos) ==
    /\ returns' = Append(returns, [end |-> end, raised |-> FALSE, text |-> Text(bs),
                                   buffer |-> bs, upto |-> pos])
    /\ rpc' = "idle"
    /\ buffer' = << >>

\* lines 77-78: _read_frame is called on the open socket
CallReadFrame ==
    /\ rpc = "idle"
    /\ Len(returns) < MaxReads
    /\ \A i \in 1..Len(returns) : ~returns[i].raised
    /\ rpc' = "loop"
    /\ buffer' = << >>
    /\ UNCHANGED <<stream, closes, taken, returns>>
    /\ UNCHANGED <<pollvars, xvars, svcvars, parsevars>>

\* line 79: time.monotonic() has reached the deadline
DeadlinePassed ==
    /\ rpc = "loop"
    /\ Return("deadline", buffer, taken)
    /\ UNCHANGED <<stream, closes, taken>>
    /\ UNCHANGED <<pollvars, xvars, svcvars, parsevars>>

\* a recv step that ends the call at every terminator
RecvChunkEmptyFrames ==
    /\ rpc = "loop"
    /\ taken < Len(stream)
    /\ taken' = taken + 1
    /\ IF IsTerminator(stream[taken + 1])
       THEN Return("terminator", buffer, taken + 1)
       ELSE /\ buffer' = Append(buffer, stream[taken + 1])
            /\ UNCHANGED <<rpc, returns>>
    /\ UNCHANGED <<stream, closes>>
    /\ UNCHANGED <<pollvars, xvars, svcvars, parsevars>>

\* lines 80-92: recv(1) hands out the next byte of the stream
RecvChunk ==
    /\ rpc = "loop"
    /\ taken < Len(stream)
    /\ taken' = taken + 1
    /\ IF IsTerminator(stream[taken + 1])
       THEN IF buffer # << >>
            THEN Return("terminator", buffer, taken + 1)
            ELSE UNCHANGED <<buffer, rpc, returns>>
       ELSE IF Len(buffer) + 1 >= BufferCap
            THEN Return("cap", Append(buffer, stream[taken + 1]), taken + 1)
            ELSE /\ buffer' = Append(buffer, stream[taken + 1])
                 /\ UNCHANGED <<rpc, returns>>
    /\ UNCHANGED <<stream, closes>>
    /\ UNCHANGED <<pollvars, xvars, svcvars, parsevars>>

\* a timeout of recv that _read_frame lets through
RecvTimeoutRaises ==
    /\ rpc = "loop"
    /\ returns' = Append(returns, [end |-> "timeout", raised |-> TRUE, text |-> "",
                                   buffer |-> buffer, upto |-> taken])
    /\ rpc' = "idle"
    /\ buffer' = << >>
    /\ UNCHANGED <<stream, closes, taken>>
    /\ UNCHANGED <<pollvars, xvars, svcvars, parsevars>>

\* lines 82-83: no byte within the socket timeout, recv raises TimeoutError
RecvTimeout ==
    /\ rpc = "loop"
    /\ Return("timeout", buffer, taken)
    /\ UNCHANGED <<stream, closes, taken>>
    /\ UNCHANGED <<pollvars, xvars, svcvars, parsevars>>

\* lines 84-85: the peer has closed the connection, recv returns b""
RecvClosed ==
    /\ rpc = "loop"
    /\ taken = Len(stream)
    /\ closes
    /\ Return("closed", buffer, taken)
    /\ UNCHANGED <<stream, closes, taken>>
    /\ UNCHANGED <<pollvars, xvars, svcvars, parsevars>>

\* lines 80-83: recv raises another OSError, which _read_frame does not catch
RecvRaises ==
    /\ rpc = "loop"
    /\ returns' = Append(returns, [end |-> "oserror", raised |-> TRUE, text |-> "",
                                   buffer |-> buffer, upto |-> taken])
    /\ rpc' = "idle"
    /\ buffer' = << >>
    /\ UNCHANGED <<stream, closes, taken>>
    /\ UNCHANGED <<pollvars, xvars, svcvars, parsevars>>

\* how the _read_frame calls of the run ended, as the reads of a connection
FramesRead ==
    [i \in 1..Len(returns) |->
        [err |-> returns[i].raised, raw |-> returns[i].text, end |-> returns[i].end]]

\* lines 102-119: a QMOD exchange whose _read_frame calls end as those of
\* the run did, on every connection it opens; the bytes are left behind
CallExchangeOnReads ==
    /\ rpc = "idle"
    /\ returns # << >>
    /\ Call(ExchangeJob("QMOD", <<Attempt(TRUE, TRUE, 0, FramesRead)>>))
    /\ rpc' = "done"
    /\ stream' = << >>
    /\ closes' = FALSE
    /\ taken' = 0
    /\ buffer' = << >>
    /\ returns' = << >>
    /\ UNCHANGED <<stale, connects, sends, frames, open, wire>>
    /\ UNCHANGED <<pollvars, svcvars, parsevars>>

\* _read_frame calls on a connection whose peer sends any stream
InitReader ==
    /\ InitWith("narrow", 0) /\ NoCall /\ NoService /\ NoParse
    /\ influx = FALSE
    /\ stream \in Streams
    /\ closes \in BOOLEAN
    /\ taken = 0
    /\ buffer = << >>
    /\ rpc = "idle"
    /\ returns = << >>

NextReader ==
    \/ CallReadFrame
    \/ DeadlinePassed
    \/ RecvChunk
    \/ RecvTimeout
    \/ RecvClosed
    \/ RecvRaises
    \/ CallExchangeOnReads
    \/ Connect
    \/ DrainRecv
    \/ SendAll
    \/ ReadFrame

SpecReader == InitReader /\ [][NextReader]_vars

\* one poll cycle and one beeper command on the executor at the same time
InitConcurrent == InitWith("narrow", 1) /\ NoCall /\ NoService /\ NoParse /\ NoRead

NextConcurrent ==
    \/ Next
    \/ async_toggle_beeper
    \/ AfterCommand
    \/ Connect
    \/ AdapterEmits
    \/ DrainRecv
    \/ SendAll
    \/ ReadFrame

SpecConcurrent == InitConcurrent /\ [][NextConcurrent]_vars

\* the calls of SpecExchange, every socket operation of the program taken
\* in the end when it stays possible; the adapter is free
SpecProgress ==
    /\ InitExchange
    /\ [][NextExchange]_vars
    /\ WF_vars(Connect)
    /\ WF_vars(DrainRecv)
    /\ WF_vars(SendAll)
    /\ WF_vars(ReadFrame)

(***************************************************************************)
(* Properties of the poll cycle.                                           *)
(***************************************************************************)
DerivedKeys == {"adapter_connected", "ups_responding", "status_summary"}

CenturionEnrich == {"Q1_legacy", "QMD", "QRI", "QMOD", "QVFW"}
MegatecEnrich == {"I", "F"}

Primaries == {i \in 1..Len(issued) : issued[i].role = "primary"}
Enriches == {i \in 1..Len(issued) : issued[i].role = "enrich"}
PrimarySucceeded == \E i \in Primaries : issued[i].ok
EnrichFailed == \E i \in Enriches : ~issued[i].ok

\* the cycle has ended by returning a mapping
Returned == pc = "done" /\ outcome \in {"ok", "failed"}

\* C1: after a successful cycle with result R1, the result of every cycle of
\* the following run of cycles in which QGS and Q1 both fail holds every
\* field of R1 with R1's value, except adapter_connected, ups_responding and
\* status_summary.
C1_StaleCarryForward ==
    (pc = "done" /\ outcome = "failed" /\ PrimaryFailed /\ r1 # EmptyMap) =>
        \A k \in DOMAIN r1 \ DerivedKeys : k \in DOMAIN data /\ data[k] = r1[k]

C1_Witness ==
    /\ pc = "done" /\ outcome = "failed" /\ PrimaryFailed
    /\ Get(r1, "status_summary") = StrV("On Battery")
    /\ Get(data, "status_summary") = StrV("Adapter Disconnected")
    /\ Get(data, "utility_fail") = BoolV(TRUE)
    /\ Get(data, "protocol_family") = StrV("centurion")

\* C2: every poll cycle ends by returning a mapping that holds
\* adapter_connected, ups_responding and status_summary.  Violated: with the
\* export enabled, urlopen raising in the except block ends the cycle with
\* an exception and no mapping.
C2_EveryCycleReturns ==
    pc = "done" => Returned /\ DerivedKeys \subseteq DOMAIN data

\* C3: a cycle in which QGS or the Q1 fallback succeeded returns
\* adapter_connected = ups_responding = true, and ups_responding = false is
\* returned only by cycles in which both failed.  Violated: the export
\* raising after a successful poll sends the cycle through the except block.
C3_RespondingIffPrimary ==
    Returned =>
        /\ PrimarySucceeded =>
              /\ Get(data, "adapter_connected") = BoolV(TRUE)
              /\ Get(data, "ups_responding") = BoolV(TRUE)
        /\ Get(data, "ups_responding") = BoolV(FALSE) => PrimaryFailed

\* C4: QGS is the first exchange of a cycle; the primary Q1 exchange happens
\* only as the second exchange and only after QGS failed; when both fail no
\* enrich query is issued and _poll_once returns nothing.
C4_DetectOrder ==
    /\ Len(issued) >= 1 => issued[1].site = "QGS" /\ issued[1].role = "primary"
    /\ Len(issued) >= 2 => (issued[2].role = "primary" <=> ~issued[1].ok)
    /\ \A i \in Primaries : i = 1 \/ (i = 2 /\ issued[i].site = "Q1" /\ ~issued[1].ok)
    /\ \A i \in Enriches : \E j \in Primaries : j < i /\ issued[j].ok
    /\ (Len(issued) >= 2 /\ ~issued[1].ok /\ ~issued[2].ok) =>
          /\ Len(issued) = 2
          /\ pc \in {"probe", "export_failed", "done"}
          /\ live_data = EmptyMap
          /\ outcome # "ok"
          /\ pc # "probe" => \E b \in BOOLEAN : result = FailedResult(data, b)

C4_Witness ==
    /\ pc = "done" /\ outcome = "failed"
    /\ Len(issued) = 2
    /\ issued[1].site = "QGS" /\ ~issued[1].ok
    /\ issued[2].site = "Q1" /\ ~issued[2].ok

\* C5: when enrich queries fail in a cycle whose primary query succeeded,
\* the cycle still returns a mapping with ups_responding = true that holds
\* the whole primary snapshot.  Violated through the export failure of C3.
C5_EnrichFailureNotFatal ==
    (pc = "done" /\ PrimarySucceeded /\ EnrichFailed) =>
        /\ outcome = "ok"
        /\ Get(data, "ups_responding") = BoolV(TRUE)
        /\ \A k \in DOMAIN live_data : k \in DOMAIN data /\ data[k] = live_data[k]

\* C6: when QGS and Q1 both fail the adapter is probed after the two
\* exchanges and without a further exchange, and the mapping the cycle
\* builds has ups_responding = false, adapter_connected = the probe's
\* outcome and status_summary "UPS Not Responding" when the probe connected,
\* "Adapter Disconnected" otherwise; with no stored mapping it holds these
\* three fields only.
C6_ProbeOnFailure ==
    (PrimaryFailed /\ pc \in {"export_failed", "done"}) =>
        /\ probe \in {"up", "down"}
        /\ Len(issued) = 2
        /\ Get(result, "ups_responding") = BoolV(FALSE)
        /\ Get(result, "adapter_connected") = BoolV(probe = "up")
        /\ Get(result, "status_summary") =
              StrV(IF probe = "up" THEN "UPS Not Responding" ELSE "Adapter Disconnected")
        /\ (pc = "export_failed" /\ data = EmptyMap) => DOMAIN result = DerivedKeys
        /\ (pc = "done" /\ outcome = "failed") => data = result

C6_Witness ==
    /\ pc = "export_failed" /\ PrimaryFailed
    /\ data = EmptyMap
    /\ probe = "up"
    /\ DOMAIN result = DerivedKeys
    /\ result["status_summary"] = StrV("UPS Not Responding")

\* the mapping a successful cycle returned
Succeeded == pc = "done" /\ outcome = "ok"

Flag(k) == Truthy(Get(data, k))

\* C7: the status_summary a successful cycle returns follows the strict
\* priority UPS Fault > On Battery > Battery Low > Overload > Normal over
\* ups_failed, utility_fail, battery_low and overload_warning.
C7_StatusPriority ==
    Succeeded =>
        /\ Flag("ups_failed") => data["status_summary"] = StrV("UPS Fault")
        /\ (~Flag("ups_failed") /\ Flag("utility_fail")) =>
              data["status_summary"] = StrV("On Battery")
        /\ (~Flag("ups_failed") /\ ~Flag("utility_fail") /\ Flag("battery_low")) =>
              data["status_summary"] = StrV("Battery Low")
        /\ (~Flag("ups_failed") /\ ~Flag("utility_fail") /\ ~Flag("battery_low")
              /\ Flag("overload_warning")) =>
              data["status_summary"] = StrV("Overload")
        /\ (~Flag("ups_failed") /\ ~Flag("utility_fail") /\ ~Flag("battery_low")
              /\ ~Flag("overload_warning")) =>
              data["status_summary"] = StrV("Normal")

C7_Witness ==
    /\ Succeeded
    /\ ~Flag("ups_failed") /\ Flag("utility_fail") /\ Flag("battery_low")
    /\ Flag("overload_warning")
    /\ data["status_summary"] = StrV("On Battery")

\* C8: a successful cycle returns on_battery = true exactly when ups_mode is
\* "battery" or "battery_test" or utility_fail is true, and overload_warning
\* = (load_percent >= 100) when load_percent is present, None when absent.
C8_DerivedFlags ==
    /\ Succeeded =>
        /\ data["on_battery"] =
              BoolV(Get(data, "ups_mode") \in {StrV("battery"), StrV("battery_test")}
                    \/ Get(data, "utility_fail") = BoolV(TRUE))
        /\ Get(data, "load_percent").t = "int" =>
              data["overload_warning"] = BoolV(data["load_percent"].v >= 100)
        /\ Get(data, "load_percent") = NoneV => data["overload_warning"] = NoneV
    /\ Get(SetOverload(EmptyMap), "overload_warning") = NoneV

C8_Witness ==
    /\ Succeeded
    /\ Get(data, "ups_mode") = StrV("battery_test")
    /\ Get(data, "utility_fail") = BoolV(FALSE)
    /\ data["on_battery"] = BoolV(TRUE)
    /\ data["load_percent"] = IntV(100)
    /\ data["overload_warning"] = BoolV(TRUE)

EnrichSites == {issued[i].site : i \in Enriches}

\* C9: after a successful cycle protocol_family is "centurion" exactly when
\* the QGS primary query succeeded and "megatec" exactly when QGS failed and
\* the primary Q1 query succeeded, never anything else, and the enrich
\* queries issued are those of that dialect.
C9_FamilyFollowsPrimary ==
    Succeeded =>
        /\ Family(data) \in {"centurion", "megatec"}
        /\ Family(data) = "centurion" <=> (issued[1].site = "QGS" /\ issued[1].ok)
        /\ Family(data) = "megatec" <=>
              (~issued[1].ok /\ issued[2].site = "Q1" /\ issued[2].role = "primary"
                  /\ issued[2].ok)
        /\ EnrichSites = IF Family(data) = "centurion" THEN CenturionEnrich ELSE MegatecEnrich

C9_Witness ==
    /\ Succeeded
    /\ Family(data) = "megatec"
    /\ ~issued[1].ok /\ issued[2].ok
    /\ EnrichSites = MegatecEnrich

\* C10: every cycle starts with the QGS exchange, whatever protocol_family
\* the stored mapping holds, and a successful cycle stores the family of the
\* primary query that answered in this cycle.
C10_DialectNotRemembered ==
    [][/\ (pc \in {"idle", "done"} /\ pc' # pc) => pc' = "QGS"
       /\ (pc = "QGS" /\ pc' # pc) => (issued = << >> /\ issued'[1].site = "QGS")
       /\ (pc = "export" /\ pc' = "done") =>
             Family(data') = IF issued[1].ok THEN "centurion" ELSE "megatec"]_vars

\* the stored mapping is a successful Megatec result and the cycle about to
\* return has polled a Centurion one
C10_Witness ==
    /\ pc = "export"
    /\ Family(data) = "megatec"
    /\ Get(data, "ups_responding") = BoolV(TRUE)
    /\ issued[1].site = "QGS" /\ issued[1].ok
    /\ Family(result) = "centurion"

(***************************************************************************)
(* C11: within a poll cycle no follow-up query and no merge changes the    *)
(* value of a key the primary snapshot set, except that the legacy Q1      *)
(* follow-up of a Centurion cycle may set fault_voltage; a Megatec cycle   *)
(* leaves the primary mapping alone altogether.                            *)
(***************************************************************************)
FollowUps == {"Q1_legacy", "QMD", "QRI", "QMOD", "QVFW", "I", "F"}

Kept(before, after, keys) == \A k \in keys : k \in DOMAIN after /\ after[k] = before[k]

C11_EnrichKeepsPrimary ==
    [][/\ pc \in FollowUps =>
            Kept(live_data, live_data', DOMAIN live_data \ {"fault_voltage"})
       /\ pc \in MegatecEnrich => live_data' = live_data
       /\ pc = "derive" => Kept(live_data, result', DOMAIN live_data)]_vars

\* a Centurion cycle whose legacy Q1, QMD and QRI follow-ups all answered
C11_Witness ==
    /\ pc = "export"
    /\ Family(result) = "centurion"
    /\ Get(result, "fault_voltage").t # "none"
    /\ Get(result, "model").t # "none"
    /\ Get(result, "rated_voltage").t # "none"

(***************************************************************************)
(* Properties of the exchange and of sendCommand.                          *)
(***************************************************************************)
ExchangeReturned == job.kind = "exchange" /\ xpc = "returned"
ExchangeRaised == job.kind = "exchange" /\ xpc = "raised"

\* the call as _exchange_with_retry computes it in one step
Atomic ==
    _exchange_with_retry(job.cmd, job.parser, job.retries, job.frames_per_try, job.script)

\* attempt a of the running exchange read a frame its parser accepts
ParsedIn(a) ==
    /\ ScriptAt(job.script, a).connect
    /\ ScriptAt(job.script, a).drain
    /\ ReadLoop(job.cmd, job.parser, job.frames_per_try, ScriptAt(job.script, a), "none").ok

(***************************************************************************)
(* C12: an exchange returns the first frame its parser accepts, over all   *)
(* attempts and all reads, together with the mapping parsed from it, and   *)
(* once it has returned it connects, sends and reads no more and holds no  *)
(* open connection.                                                        *)
(***************************************************************************)
C12_FirstParsedFrameReturned ==
    ExchangeReturned =>
        /\ answer.ok
        /\ answer.raw = ReadAt(Att, Idx).raw
        /\ ParseFrame(job.parser, answer.raw).ok
        /\ answer.data = ParseFrame(job.parser, answer.raw).data
        /\ \A m \in 1..(Idx - 1) :
              ReadAt(Att, m).raw = "" \/ ~ParseFrame(job.parser, ReadAt(Att, m).raw).ok
        /\ \A a \in 1..(attempt - 1) : ~ParsedIn(a)
        /\ answer.raw = Atomic.raw /\ answer.data = Atomic.data
        /\ connects = attempt
        /\ sends <= Len(Payloads) * (attempt - 1) + payload_idx
        /\ frames <= job.frames_per_try * (sends - 1) + frame_idx
        /\ open = 0
        /\ ~ENABLED (Connect \/ DrainRecv \/ SendAll \/ ReadFrame)

\* the second attempt answers on its second terminator variant
C12_Witness ==
    /\ ExchangeReturned
    /\ attempt = 2
    /\ payload_idx = 2
    /\ frames > job.frames_per_try

(***************************************************************************)
(* C13: an exchange raises exactly when none of its retries attempts read  *)
(* a frame its parser accepts; it never connects more than retries times,  *)
(* never reads more than retries * 3 * frames_per_try frames, and the      *)
(* error it raises with is the last one met: a transport error, a frame    *)
(* the parser refused, or an empty response.                               *)
(***************************************************************************)
C13_FailsWhenBudgetExhausted ==
    job.kind = "exchange" =>
        /\ connects <= job.retries
        /\ sends <= job.retries * Len(Payloads)
        /\ frames <= job.retries * Len(Payloads) * job.frames_per_try
        /\ xpc = "returned" => \E a \in 1..job.retries : ParsedIn(a)
        /\ xpc = "raised" =>
              /\ \A a \in 1..job.retries : ~ParsedIn(a)
              /\ connects = job.retries
              /\ attempt = job.retries
              /\ ~answer.ok /\ ~Atomic.ok
              /\ answer.last_error = last_err
              /\ answer.last_error = Atomic.last_error
              /\ answer.last_error \in {"transport", "parse", "empty"}
              /\ answer.last_error = "transport" <=>
                    \/ ~Att.connect
                    \/ ~Att.drain
                    \/ \E k \in 1..(Len(Payloads) * job.frames_per_try) :
                          SendRaises(Att, k, job.frames_per_try) \/ ReadAt(Att, k).err
              /\ answer.last_error = "empty" =>
                    ReadAt(Att, Len(Payloads) * job.frames_per_try).raw = ""

\* four silent attempts use up the whole budget
C13_Witness ==
    /\ ExchangeRaised
    /\ job.retries = DefaultRetries
    /\ connects = DefaultRetries
    /\ frames = DefaultRetries * Len(Payloads) * DefaultFramesPerTry
    /\ answer.last_error = "empty"

CommandReturned == job.kind = "command" /\ xpc = "returned"
CommandRaised == job.kind = "command" /\ xpc = "raised"

\* the reads a command attempt can make
Reads == 1..(Len(Payloads) * CommandFramesPerTry)

\* the attempt connects, takes all three writes and answers nothing
Silent(att) ==
    /\ att.connect
    /\ att.drain
    /\ att.sendFail \notin 1..Len(Payloads)
    /\ \A k \in Reads : ReadAt(att, k) = Timeout

\* the attempt of a command ends in a transport error
TransportEnds(att) ==
    \/ ~att.connect
    \/ ~att.drain
    \/ \E k \in Reads :
          /\ SendRaises(att, k, CommandFramesPerTry) \/ ReadAt(att, k).err
          /\ \A m \in 1..(k - 1) : ReadAt(att, m).raw = ""

(***************************************************************************)
(* C14: sendCommand returns the first non-empty frame read after the write *)
(* of the command, and it returns NO_RESPONSE exactly when the attempt     *)
(* that ended the call connected, wrote all three terminator variants      *)
(* with no transport error, and read only empty frames.                    *)
(***************************************************************************)
C14_FirstFrameOrNoResponse ==
    /\ CommandReturned /\ answer.raw # "NO_RESPONSE" =>
          /\ answer.raw # ""
          /\ answer.raw = ReadAt(Att, Idx).raw
          /\ \A m \in 1..(Idx - 1) : ReadAt(Att, m) = Timeout
          /\ sends >= 1
          /\ ~Silent(Att)
    /\ CommandReturned /\ answer.raw = "NO_RESPONSE" =>
          /\ Silent(Att)
          /\ payload_idx = Len(Payloads)
          /\ frame_idx = CommandFramesPerTry
    /\ CommandRaised => ~Silent(Att) /\ \A a \in 1..attempt : ~Silent(ScriptAt(job.script, a))

\* a silent second attempt after a failed first one
C14_Witness ==
    /\ CommandReturned
    /\ answer.raw = "NO_RESPONSE"
    /\ attempt = 2
    /\ sends >= Len(Payloads)
    /\ frames >= Len(Payloads) * CommandFramesPerTry

(***************************************************************************)
(* C15: sendCommand raises exactly when each of its three attempts ended   *)
(* in a transport error; an attempt that completes after failed ones ends  *)
(* the call with its response, a frame or NO_RESPONSE.                     *)
(***************************************************************************)
C15_FailsOnlyOnTransport ==
    /\ job.kind = "command" => job.retries = CommandRetries /\ connects <= CommandRetries
    /\ CommandRaised =>
          /\ \A a \in 1..CommandRetries : TransportEnds(ScriptAt(job.script, a))
          /\ connects = CommandRetries
          /\ ~answer.ok
          /\ answer.last_error = "transport"
    /\ CommandReturned =>
          /\ \A a \in 1..(attempt - 1) : TransportEnds(ScriptAt(job.script, a))
          /\ ~TransportEnds(Att)
          /\ answer.ok
          /\ connects = attempt

\* three attempts, each ended by a transport error
C15_Witness ==
    /\ CommandRaised
    /\ connects = CommandRetries
    /\ answer.last_error = "transport"
    /\ sends > 0

(***************************************************************************)
(* Properties of the control services.                                     *)
(***************************************************************************)
Rejected == svc = "rejected" /\ job = NoJob /\ connects = 0 /\ sends = 0 /\ open = 0

InRange(value, low, high) == value.t = "int" /\ low <= value.v /\ value.v <= high
OutOfRange(value, low, high) == value.t = "int" /\ (value.v < low \/ value.v > high)

\* the text is the number n written with exactly width decimal digits
IsField(text, n, width) == Len(text) = width /\ AllDigits(text) /\ DigitsValue(text) = n

(***************************************************************************)
(* C16: a battery-test request whose minutes value lies outside 1..99 is   *)
(* rejected before any connection or byte, whatever until_low is; with     *)
(* minutes in 1..99 and until_low false the command is T and the minutes   *)
(* as two digits; with neither minutes nor until_low the command is T.     *)
(***************************************************************************)
C16_TestMinutesChecked ==
    request.service = "start_battery_test" =>
        /\ OutOfRange(request.minutes, 1, 99) => Rejected
        /\ InRange(request.minutes, 1, 99) /\ ~request.until_low =>
              /\ svc # "rejected"
              /\ Len(job.cmd) = 3
              /\ Ch(job.cmd, 1) = "T"
              /\ IsField(Slice(job.cmd, 2, 3), request.minutes.v, 2)
        /\ request.minutes = IntV(99) /\ ~request.until_low => job.cmd = "T99"
        /\ request.minutes = NoneV /\ ~request.until_low =>
              svc # "rejected" /\ job.cmd = "T"

(***************************************************************************)
(* C17: a shutdown request with delay_minutes outside 0..9999, or with a   *)
(* restart_minutes outside 0..9999, is rejected before any connection or   *)
(* byte; any other is sent as S and the delay as four digits, followed by  *)
(* R and the restart value as four digits exactly when one was supplied.   *)
(***************************************************************************)
C17_ShutdownChecked ==
    request.service = "shutdown" =>
        IF \/ request.delay_minutes < 0
           \/ request.delay_minutes > 9999
           \/ OutOfRange(request.restart_minutes, 0, 9999)
        THEN Rejected
        ELSE /\ svc # "rejected"
             /\ Ch(job.cmd, 1) = "S"
             /\ IsField(Slice(job.cmd, 2, 5), request.delay_minutes, 4)
             /\ IF request.restart_minutes = NoneV
                THEN Len(job.cmd) = 5
                ELSE /\ Len(job.cmd) = 10
                     /\ Ch(job.cmd, 6) = "R"
                     /\ IsField(Slice(job.cmd, 7, 10), request.restart_minutes.v, 4)
             /\ sends > 0 => \A p \in 1..Len(Payloads) :
                                Sent(job.cmd, Len(Payloads))[p] = job.cmd \o Payloads[p]

\* a shutdown in five minutes with a restart after thirty was written to the adapter
C17_Witness ==
    /\ request.service = "shutdown"
    /\ request.delay_minutes = 5
    /\ request.restart_minutes = IntV(30)
    /\ job.cmd = "S0005R0030"
    /\ sends > 0
    /\ svc = "refresh_requested"

(***************************************************************************)
(* C19: self.data is written by the poll cycle alone, when it returns its  *)
(* mapping; no step of a command, whether it runs beside a poll cycle or   *)
(* alone and whether it ends with a frame, NO_RESPONSE or an error, and no *)
(* step of its handler changes it.                                         *)
(***************************************************************************)
C19_DataWrittenByPollOnly ==
    [][/\ data' # data =>
            /\ pc \in {"export", "export_failed"}
            /\ pc' = "done"
            /\ data' = result
            /\ UNCHANGED <<xvars, svcvars, parsevars, readvars>>
       /\ (xvars' # xvars \/ svcvars' # svcvars) => data' = data]_vars

\* a command that got no response ended while a cycle that had stored
\* nothing yet was between its queries
C19_Witness ==
    /\ svc = "refresh_requested"
    /\ answer.raw = "NO_RESPONSE"
    /\ pc = "QMD"
    /\ data = EmptyMap

(***************************************************************************)
(* C20: every exchange and every sendCommand call ends, by returning or by *)
(* raising, whatever the adapter does, an adapter that keeps sending bytes *)
(* while the new connection is drained included.                           *)
(***************************************************************************)
C20_EveryCallEnds == (xpc = "connect") ~> (xpc \in {"returned", "raised"})

(***************************************************************************)
(* C21: the frame an exchange returns with its mapping is an answer to the *)
(* command of that exchange; a frame that answers another command is       *)
(* refused by the parser of the exchange and passed over.                  *)
(***************************************************************************)
C21_NoCrossCommandFrame ==
    ExchangeReturned =>
        /\ answer.raw \in AnswerFrames(job.cmd, "wide")
        /\ \A i \in 1..Len(wire) :
              wire[i].op = "read" /\ wire[i].text \in StaleFrames(job.cmd) =>
                  ~ParseFrame(job.parser, wire[i].text).ok


(***************************************************************************)
(* Properties of the parsers.                                              *)
(***************************************************************************)
Bitfields8 == Bitfields(8)
Bitfields12 == Bitfields(12)

Q1Numbers ==
    <<"input_voltage", "fault_voltage", "output_voltage", "load_percent",
      "input_frequency_hz", "battery_voltage", "temperature_c">>

Q1Flags ==
    <<"utility_fail", "battery_low", "avr_active", "ups_failed", "standby_type",
      "test_in_progress", "shutdown_active", "beeper_on">>

\* one of the two parse_q1 has been applied to a Q1 frame of 8 tokens
Q1Parsed ==
    /\ given.kind = "Q1"
    /\ Len(given.tokens) = 8
    /\ parsed.parser \in {"parse_q1", "bridge.parse_q1"}

IParsed ==
    /\ given.kind = "I"
    /\ given.lead # "("
    /\ parsed.parser \in {"parse_i", "bridge.parse_i"}

\* C23: parse_i maps an identity payload of three or more tokens, after
\* the leading '#' is removed, to company = first token, model = second
\* token and firmware = the remaining tokens joined by single spaces, and
\* rejects every payload whose first token parses as a number.
C23_ParseI ==
    IParsed =>
        /\ given.tokens[1] \in DOMAIN Literals => ~parsed.ok
        /\ (Len(given.tokens) >= 3 /\ given.tokens[1] \notin DOMAIN Literals)
           => /\ parsed.ok
              /\ parsed.data["company"] = StrV(given.tokens[1])
              /\ parsed.data["model"] = StrV(given.tokens[2])
              /\ parsed.data["firmware"] =
                    StrV(Spaced(SubSeq(given.tokens, 3, Len(given.tokens)), " "))

RatingsFields ==
    <<"rated_voltage", "rated_current", "rated_battery_voltage", "rated_frequency_hz">>

\* what the other ratings parser does with the frame
OtherRatings(parser, raw) == IF parser = "parse_f" THEN parse_qri(raw) ELSE parse_f(raw)

\* C24: parse_f and parse_qri behave identically on every input frame
\* (both raise, or both return the same mapping); after the leading '('
\* is removed the first four tokens become rated_voltage, rated_current,
\* rated_battery_voltage and rated_frequency_hz in that order, and a
\* payload of fewer than four tokens fails to parse in both.
C24_RatingsParsersAgree ==
    parsed.parser \in {"parse_f", "parse_qri"} =>
        /\ parsed.ok = OtherRatings(parsed.parser, raw_frame).ok
        /\ parsed.data = OtherRatings(parsed.parser, raw_frame).data
        /\ (given.kind = "ratings" /\ given.lead \in {"", "("}) =>
              /\ Len(given.tokens) < 4 => ~parsed.ok
              /\ (/\ Len(given.tokens) >= 4
                  /\ \A k \in 1..4 : given.tokens[k] \in DOMAIN Literals)
                 => /\ parsed.ok
                    /\ \A k \in 1..4 :
                          parsed.data[RatingsFields[k]] = Literals[given.tokens[k]].f

QGSFlags ==
    <<"utility_fail", "battery_low", "avr_active", "ups_failed", "epo_active",
      "test_in_progress", "shutdown_active", "battery_silence">>

\* parse_qgs has been applied to a valid QGS frame of 12 or more tokens
QGSParsed ==
    /\ given.kind = "QGS"
    /\ parsed.parser = "parse_qgs"
    /\ Len(given.tokens) >= 12
    /\ given.tokens[12] \in Bitfields12

\* position n (from 0) of the bitfield of the frame is '1'
QGSBit(n) == SubSeq(given.tokens[12], n + 1, n + 1) = "1"

\* C25: for every valid QGS frame of 12 or more tokens parse_qgs returns
\* ups_topology standby, line_interactive or online for bitfield positions
\* 0-1 equal to 00, 01 or 10, the eight status flags from positions 2..9 in
\* order, the battery-test result bits from positions 10..11, and
\* beeper_on as the negation of battery_silence.
C25_ParseQGS ==
    QGSParsed =>
        /\ parsed.ok
        /\ (~QGSBit(0) /\ ~QGSBit(1)) => parsed.data["ups_topology"] = StrV("standby")
        /\ (~QGSBit(0) /\ QGSBit(1)) => parsed.data["ups_topology"] = StrV("line_interactive")
        /\ (QGSBit(0) /\ ~QGSBit(1)) => parsed.data["ups_topology"] = StrV("online")
        /\ \A k \in 1..8 : parsed.data[QGSFlags[k]] = BoolV(QGSBit(k + 1))
        /\ parsed.data["battery_test_fail"] = BoolV(QGSBit(10))
        /\ parsed.data["battery_test_ok"] = BoolV(QGSBit(11))
        /\ parsed.data["beeper_on"] = BoolV(~parsed.data["battery_silence"].v)

C25_Witness ==
    /\ QGSParsed
    /\ Len(given.tokens) = 13
    /\ given.tokens[12] = "100101010110"
    /\ parsed.ok
    /\ parsed.data["ups_topology"] = StrV("online")
    /\ parsed.data["battery_silence"] = BoolV(TRUE)
    /\ parsed.data["beeper_on"] = BoolV(FALSE)

\* the code table of the mode query
ModeTable ==
    [c \in {"P", "S", "Y", "L", "B", "T", "F", "E", "C", "D"} |->
        CASE c = "P" -> "power_on" [] c = "S" -> "standby" [] c = "Y" -> "bypass"
          [] c = "L" -> "line" [] c = "B" -> "battery" [] c = "T" -> "battery_test"
          [] c = "F" -> "fault" [] c = "E" -> "eco" [] c = "C" -> "converter"
          [] c = "D" -> "shutdown"]

\* parse_qmod has been applied to a mode payload
QMODParsed == given.kind = "QMOD" /\ parsed.parser = "parse_qmod"

\* the payload has a leading character and it is in the table
InTable ==
    /\ Len(given.tokens) = 1
    /\ SubSeq(given.tokens[1], 1, 1) \in DOMAIN ModeTable

\* C26: parse_qmod maps the leading character of the payload through the
\* table P, S, Y, L, B, T, F, E, C, D and fails to parse for every payload
\* whose leading character is not one of these ten, the empty payload
\* included.
C26_ParseQMOD ==
    QMODParsed =>
        IF InTable
        THEN /\ parsed.ok
             /\ parsed.data["ups_mode"] = StrV(ModeTable[SubSeq(given.tokens[1], 1, 1)])
        ELSE ~parsed.ok

C26_Witness ==
    /\ QMODParsed
    /\ raw_frame = "(Ex"
    /\ parsed.ok
    /\ parsed.data["ups_mode"] = StrV("eco")

\* C27 as the spec states it: mode input "T" is a parse failure of
\* parse_qmod and mode input "B" yields ups_mode = "battery".
C27_TestModeRejected ==
    QMODParsed =>
        /\ raw_frame = "T" => ~parsed.ok
        /\ raw_frame = "B" => parsed.ok /\ parsed.data["ups_mode"] = StrV("battery")

\* C27: mode input "T" yields ups_mode = "battery_test" (T is in the code
\* table of parse_qmod), and mode input "B" yields ups_mode = "battery".
C27_TestModeParsed ==
    QMODParsed =>
        /\ raw_frame = "T" => parsed.ok /\ parsed.data["ups_mode"] = StrV("battery_test")
        /\ raw_frame = "B" => parsed.ok /\ parsed.data["ups_mode"] = StrV("battery")

C27_Witness ==
    /\ QMODParsed
    /\ raw_frame = "T"
    /\ parsed.ok
    /\ parsed.data["ups_mode_code"] = StrV("T")

(***************************************************************************)
(* Properties of the connections of a call.                                *)
(***************************************************************************)
\* the call is over: it returned or it raised
CallOver == xpc \in {"returned", "raised"}

\* the last socket operation of the call
LastEvent == wire[Len(wire)]

\* C28: when an exchange or a command call returns or fails, after a
\* parsed frame, after parse failures or after a transport error at
\* connect, drain, send or receive, no connection it opened is open, and
\* at no point does the call hold more than one open connection.
C28_ConnectionsClosed ==
    /\ open \in {0, 1}
    /\ CallOver => open = 0
    /\ xpc \in {"idle", "connect"} => open = 0
    /\ xpc \in {"drain", "send", "read"} => open = 1

C28_Witness ==
    /\ xpc = "raised"
    /\ job.kind = "exchange"
    /\ open = 0
    /\ connects = job.retries
    /\ LastEvent.op = "read"
    /\ LastEvent.err

\* the socket operations of an exchange
ExchangeWire == IF job.kind = "exchange" THEN wire ELSE << >>

\* C29: each retry attempt of an exchange opens its own new connection:
\* every socket operation of attempt a is made on connection a, so that no
\* connection is used by a later attempt and all terminator variants of an
\* attempt are sent on the one connection of that attempt; an attempt
\* begins with its connect; and after a transport error nothing more is
\* done in that attempt, the next operation being the connect of the next
\* attempt.
C29_OneConnectionPerAttempt ==
    /\ \A i \in 1..Len(ExchangeWire) :
          /\ wire[i].conn = wire[i].att
          /\ wire[i].att <= job.retries
          /\ wire[i].op = "connect" <=> (i = 1 \/ wire[i - 1].att < wire[i].att)
          /\ i > 1 => wire[i - 1].att \in {wire[i].att, wire[i].att - 1}
          /\ (i > 1 /\ wire[i - 1].err) =>
                /\ wire[i].op = "connect"
                /\ wire[i].att = wire[i - 1].att + 1
    /\ (job.kind = "exchange" /\ xpc \in {"drain", "send", "read"}) => connects = attempt

\* a send failed on the second terminator variant of the first attempt and
\* the second attempt has sent all three variants on its connection
C29_Witness ==
    /\ job.kind = "exchange"
    /\ \E i \in 1..Len(wire) :
          /\ wire[i].op = "send" /\ wire[i].err /\ wire[i].att = 1
          /\ wire[i].text = job.cmd \o "\r\n"
    /\ {wire[i].text : i \in {k \in 1..Len(wire) : wire[k].op = "send" /\ wire[k].conn = 2}}
          = {job.cmd \o "\r", job.cmd \o "\r\n", job.cmd \o "\n"}

\* the command with its k-th terminator: CR, CR+LF, LF
Variant(k) == job.cmd \o (CASE k = 1 -> "\r" [] k = 2 -> "\r\n" [] k = 3 -> "\n")

\* operation i is the sendall of variant k
IsSend(i, k) == wire[i].op = "send" /\ wire[i].text = Variant(k)

\* operation i read a frame that was empty or failed to parse
Unanswered(i) ==
    /\ wire[i].op = "read"
    /\ ~wire[i].err
    /\ wire[i].text = "" \/ ~ParseFrame(job.parser, wire[i].text).ok

\* operation i follows, in the same attempt, an operation that did not fail
Follows(i, ops) ==
    /\ i > 1
    /\ wire[i - 1].op \in ops
    /\ ~wire[i - 1].err
    /\ wire[i - 1].att = wire[i].att

\* C30: within one attempt of an exchange the operations are, in order:
\* connect, the drain, then for each terminator variant in the order CR,
\* CR+LF, LF one send of the command and at most frames_per_try frame
\* reads; no command is sent before the drain has ended, and a later
\* variant is sent only after frames_per_try frames were read for the
\* variant before it and every one of them was empty or failed to parse.
C30_OrderWithinAttempt ==
    \A i \in 1..Len(ExchangeWire) :
        /\ wire[i].op = "connect" => (i = 1 \/ wire[i - 1].att # wire[i].att)
        /\ wire[i].op = "drain" => Follows(i, {"connect"})
        /\ wire[i].op = "send" => (IsSend(i, 1) \/ IsSend(i, 2) \/ IsSend(i, 3))
        /\ IsSend(i, 1) => Follows(i, {"drain"})
        /\ \A k \in 2..3 :
              IsSend(i, k) =>
                  /\ i > job.frames_per_try + 1
                  /\ IsSend(i - job.frames_per_try - 1, k - 1)
                  /\ \A m \in (i - job.frames_per_try)..(i - 1) :
                        Unanswered(m) /\ wire[m].att = wire[i].att
        /\ wire[i].op = "read" =>
              /\ Follows(i, {"send", "read"})
              /\ wire[i - 1].op = "read" => Unanswered(i - 1)
              /\ i > job.frames_per_try =>
                    \E m \in (i - job.frames_per_try)..(i - 1) : wire[m].op # "read"

\* an exchange returned the frame read after the second send of an attempt
C30_Witness ==
    /\ job.kind = "exchange"
    /\ xpc = "returned"
    /\ Len(wire) > job.frames_per_try + 4
    /\ LastEvent.op = "read"
    /\ IsSend(Len(wire) - 1, 2)

(***************************************************************************)
(* Properties of the frames an exchange ignores.                           *)
(***************************************************************************)
\* the reads one attempt of the running call can make
ReadsPerAttempt == Len(Payloads) * job.frames_per_try

\* the step is a _read_frame call of an exchange that returned a frame,
\* not the last one of its attempt, which the parser rejects
NoiseRead ==
    /\ job.kind = "exchange"
    /\ xpc = "read"
    /\ frames' = frames + 1
    /\ Idx < ReadsPerAttempt
    /\ wire'[Len(wire')].text # ""
    /\ ~ParseFrame(job.parser, wire'[Len(wire')].text).ok

\* attempt a of the call made every read it can make, or had a transport error
Exhausted(a) ==
    \/ \E i \in 1..Len(wire) : wire[i].att = a /\ wire[i].err
    \/ Cardinality({i \in 1..Len(wire) : wire[i].att = a /\ wire[i].op = "read"})
          = ReadsPerAttempt

\* C31: a frame that fails to parse does not end the attempt: the
\* connection stays open, no retry is consumed and no new connection is
\* made, and the next frame, or the next terminator variant when the
\* frames of this one are used up, is tried on the same connection; an
\* exchange fails only when each of its attempts had a transport error or
\* made all its reads.
C31_ParseFailureIgnored ==
    /\ [][NoiseRead =>
            /\ attempt' = attempt
            /\ connects' = connects
            /\ open = 1 /\ open' = 1
            /\ ~wire'[Len(wire')].err
            /\ IF frame_idx < job.frames_per_try
               THEN xpc' = "read" /\ payload_idx' = payload_idx /\ frame_idx' = frame_idx + 1
               ELSE xpc' = "send" /\ payload_idx' = payload_idx + 1]_vars
    /\ [](ExchangeRaised => \A a \in 1..job.retries : Exhausted(a))

\* an exchange was raised after its last attempt read only frames of
\* another kind and timeouts
C31_Witness ==
    /\ ExchangeRaised
    /\ last_err \in {"parse", "empty"}
    /\ \A a \in 1..job.retries :
          \E i \in 1..Len(wire) : wire[i].att = a /\ wire[i].op = "read" /\ wire[i].text # ""
    /\ \A i \in 1..Len(wire) : ~wire[i].err

(***************************************************************************)
(* Properties of the enrich phase.                                         *)
(***************************************************************************)
CenturionOrder == <<"Q1_legacy", "QMD", "QRI", "QMOD", "QVFW">>
MegatecOrder == <<"I", "F">>

\* the exchanges of the cycle after the one that answered the primary query
EnrichIssued == SubSeq(issued, Cardinality(Primaries) + 1, Len(issued))

\* the enrich phase of the cycle is over
EnrichOver == pc \in {"derive", "export", "export_failed", "probe", "done"}

\* the enrich queries issued so far are the first ones of order, in order,
\* and all of them once the enrich phase is over
Follow(order) ==
    /\ Len(EnrichIssued) <= Len(order)
    /\ \A i \in 1..Len(EnrichIssued) :
          EnrichIssued[i].site = order[i] /\ EnrichIssued[i].role = "enrich"
    /\ EnrichOver => Len(EnrichIssued) = Len(order)

\* C32: in a Centurion cycle (QGS answered) the enrich queries issued are
\* exactly legacy Q1, QMD, QRI, QMOD, QVFW in that order and never I or F;
\* in a Megatec cycle (QGS failed, Q1 answered) they are exactly I then F
\* and never QMD, QRI, QMOD, QVFW or a second Q1.
C32_EnrichOrder ==
    /\ (Len(issued) >= 1 /\ issued[1].ok) => Follow(CenturionOrder)
    /\ (Len(issued) >= 2 /\ ~issued[1].ok /\ issued[2].ok) =>
          /\ Follow(MegatecOrder)
          /\ Cardinality({i \in 1..Len(issued) : issued[i].cmd = "Q1"}) = 1

\* a Centurion cycle returned although its QMD and QMOD queries failed
C32_Witness ==
    /\ pc = "done" /\ outcome = "ok"
    /\ issued[1].ok
    /\ Len(issued) = 6
    /\ ~issued[3].ok /\ issued[4].ok /\ ~issued[5].ok

\* the fault voltage of the Q1 frames of the device: token 1, "140.0"
LegacyFaultVoltage == FloatV(140, 0)

\* the legacy Q1 exchange of the cycle
LegacyIssued == issued[2]

\* C33: in a Centurion cycle the legacy Q1 exchange contributes only
\* fault_voltage: when it succeeds fault_voltage becomes the legacy Q1
\* value and every other field of the snapshot keeps the value parsed from
\* QGS, when it fails the snapshot is unchanged and has no fault_voltage;
\* the mapping the cycle builds has fault_voltage accordingly, keeps
\* protocol_family = "centurion" and the fields of the snapshot.
C33_LegacyOnlyFaultVoltage ==
    /\ [][(pc = "Q1_legacy" /\ pc' # pc) =>
            /\ "fault_voltage" \notin DOMAIN live_data
            /\ Family(live_data) = "centurion"
            /\ live_data' = IF issued'[Len(issued')].ok
                            THEN Put(live_data, "fault_voltage", LegacyFaultVoltage)
                            ELSE live_data]_vars
    /\ []((pc = "export" /\ issued[1].ok) =>
            /\ LegacyIssued.site = "Q1_legacy"
            /\ Get(result, "fault_voltage") =
                  IF LegacyIssued.ok THEN LegacyFaultVoltage ELSE NoneV
            /\ LegacyIssued.ok <=> "fault_voltage" \in DOMAIN result
            /\ Family(result) = "centurion"
            /\ \A k \in DOMAIN live_data : result[k] = live_data[k])

\* a Centurion cycle whose legacy Q1 answered, on a device on battery
C33_Witness ==
    /\ pc = "export"
    /\ issued[1].ok /\ LegacyIssued.ok
    /\ Get(result, "fault_voltage") = LegacyFaultVoltage
    /\ Get(result, "utility_fail") = BoolV(TRUE)
    /\ Family(result) = "centurion"

(***************************************************************************)
(* Properties of the budgets.                                              *)
(***************************************************************************)
\* the commands only the enrich phase sends
FollowUpCommands == {"QMD", "QRI", "QMOD", "QVFW", "I", "F"}

\* C34: the primary status queries QGS and Q1 run with 4 retries and 6
\* frames per terminator variant, and every follow-up query (legacy Q1,
\* QMD, QRI, QMOD, QVFW, I, F) runs with a smaller budget of 1 to 3
\* retries, so that it connects at most 3 times.  Violated: QMD, QRI, QMOD,
\* QVFW, I and F are called with the default budget of 4 retries.
C34_Budgets ==
    job.kind = "exchange" =>
        /\ connects <= job.retries
        /\ job.cmd = "QGS" => job.retries = 4 /\ job.frames_per_try = 6
        /\ job.cmd = "Q1" =>
              \/ job.retries = 4 /\ job.frames_per_try = 6
              \/ job.retries \in 1..3
        /\ job.cmd \in FollowUpCommands => job.retries \in 1..3 /\ connects <= 3

(***************************************************************************)
(* Properties of the Frame Reader.                                         *)
(***************************************************************************)
\* where the i-th _read_frame call found the stream, and the bytes it took
From(i) == IF i = 1 THEN 0 ELSE returns[i - 1].upto
Segment(i) == SubSeq(stream, From(i) + 1, returns[i].upto)

\* where the running or the next call found the stream
Start == IF returns = << >> THEN 0 ELSE returns[Len(returns)].upto

NonTerminators(bs) == SelectSeq(bs, LAMBDA b : ~IsTerminator(b))

\* the frames of a stream: its maximal runs of bytes other than CR and LF
RunLength(bs) ==
    IF {k \in 1..Len(bs) : IsTerminator(bs[k])} = {} THEN Len(bs)
    ELSE (CHOOSE k \in 1..Len(bs) :
              /\ IsTerminator(bs[k])
              /\ \A m \in 1..(k - 1) : ~IsTerminator(bs[m])) - 1

RECURSIVE Runs(_)
Runs(bs) ==
    IF bs = << >> THEN << >>
    ELSE IF IsTerminator(Head(bs)) THEN Runs(Tail(bs))
    ELSE <<SubSeq(bs, 1, RunLength(bs))>> \o Runs(SubSeq(bs, RunLength(bs) + 1, Len(bs)))

\* the bytes from+1..upto hold no terminator after a byte of a frame,
\* unless it is the last of them
StopsAtTerminator(from, upto) ==
    \A k \in (from + 1)..upto :
        (/\ IsTerminator(stream[k])
         /\ {m \in (from + 1)..(k - 1) : ~IsTerminator(stream[m])} # {}) => k = upto

\* the i-th call took the bytes up to the first terminator that follows a
\* byte of a frame and no byte more, skipped the terminators before the
\* frame, kept every other byte, and returned them decoded and stripped
ReadInOrder(i) ==
    /\ StopsAtTerminator(From(i), returns[i].upto)
    /\ returns[i].buffer = NonTerminators(Segment(i))
    /\ returns[i].text = Text(returns[i].buffer)
    /\ returns[i].end = "terminator" <=>
           /\ returns[i].buffer # << >>
           /\ IsTerminator(stream[returns[i].upto])
    /\ (\A k \in 1..i : returns[k].end = "terminator") =>
           /\ i <= Len(Runs(stream))
           /\ returns[i].buffer = Runs(stream)[i]

\* C35: _read_frame consumes one byte at a time and stops at the first CR
\* or LF that follows at least one accumulated byte; terminators seen while
\* the buffer is empty are skipped; no byte after the terminating CR or LF
\* is consumed, so consecutive reads return consecutive frames of the
\* stream in order, and every consumed byte other than a terminator is in
\* the buffer of exactly one read.
C35_FrameReader ==
    /\ [][rpc = "loop" => taken' \in {taken, taken + 1}]_vars
    /\ [](/\ \A i \in 1..Len(returns) : ~returns[i].raised => ReadInOrder(i)
          /\ rpc = "idle" => taken = Start
          /\ rpc = "loop" => /\ buffer = NonTerminators(SubSeq(stream, Start + 1, taken))
                             /\ StopsAtTerminator(Start, taken)
                             /\ buffer # << >> => ~IsTerminator(stream[taken]))

\* two reads have returned the two different frames of the stream, each at
\* its terminator
C35_Witness ==
    /\ Len(returns) = 2
    /\ \A i \in 1..2 : returns[i].end = "terminator"
    /\ returns[1].text # returns[2].text
    /\ returns[2].text # ""
    /\ rpc = "idle"

\* the reads of the running exchange's connection that ended without a byte
Starved(r) == ~r.err /\ r.raw = "" /\ r.end \in {"timeout", "closed", "deadline"}

\* C36: a _read_frame call that gets no byte before its deadline, by a
\* timeout or because the peer has closed, returns the empty string and
\* raises no error; a timeout with bytes in the buffer returns the text of
\* that partial buffer; and an exchange hands no empty frame to its parser
\* (an empty frame leaves last_error "empty", a frame its parser rejected
\* leaves "parse") and returns none as its raw frame.
C36_EmptyReads ==
    /\ \A i \in 1..Len(returns) :
           returns[i].end \in {"timeout", "closed", "deadline"} =>
               /\ ~returns[i].raised
               /\ returns[i].upto = From(i) => returns[i].text = ""
               /\ returns[i].text = Text(NonTerminators(Segment(i)))
    /\ job.kind = "exchange" =>
           /\ xpc = "returned" => answer.raw # ""
           /\ (/\ wire # << >>
               /\ LastEvent.op = "read"
               /\ ~LastEvent.err
               /\ LastEvent.text = "") => last_err = "empty" /\ xpc # "returned"

\* an exchange has returned the frame that followed a read that had timed
\* out without a byte, and it had taken that read for an empty frame
C36_Witness ==
    /\ ExchangeReturned
    /\ Len(Att.reads) = 2
    /\ Starved(Att.reads[1])
    /\ Att.reads[1].end = "timeout"
    /\ answer.raw = Att.reads[2].raw
    /\ answer.last_error = "empty"
    /\ frames = 2

(***************************************************************************)
(* Properties of the Poll Result.                                          *)
(***************************************************************************)
\* the availability fields of a Poll Result agree with each other
Available(r) ==
    /\ DerivedKeys \subseteq DOMAIN r
    /\ r["adapter_connected"].t = "bool" /\ r["ups_responding"].t = "bool"
    /\ r["ups_responding"].v => r["adapter_connected"].v
    /\ r["status_summary"] = StrV("Adapter Disconnected") <=> ~r["adapter_connected"].v
    /\ r["status_summary"] = StrV("UPS Not Responding") <=>
           r["adapter_connected"].v /\ ~r["ups_responding"].v

\* C37: in every Poll Result, the one a cycle returns and the one the
\* coordinator has stored, ups_responding = true implies adapter_connected
\* = true, status_summary is "Adapter Disconnected" exactly when
\* adapter_connected is false, and "UPS Not Responding" exactly when
\* adapter_connected is true and ups_responding is false.
C37_AvailabilityFields ==
    /\ Returned => Available(result)
    /\ data # EmptyMap => Available(data)

\* a cycle failed with the adapter unreachable, after a cycle that had
\* succeeded: its result holds the earlier readings and the three fields
C37_Witness ==
    /\ Returned
    /\ outcome = "failed"
    /\ probe = "down"
    /\ "input_voltage" \in DOMAIN result
    /\ result["status_summary"] = StrV("Adapter Disconnected")
    /\ result["ups_responding"] = BoolV(FALSE)
    /\ data = result

\* an exchange of this cycle at the call site answered
Answered(site) == {i \in 1..Len(issued) : issued[i].site = site /\ issued[i].ok} # {}

\* the call sites whose parser's mapping holds the field
SitesOf(field) ==
    CASE field = "ups_mode" -> {"QMOD"}
      [] field = "model" -> {"QMD", "I"}
      [] field = "rated_watts" -> {"QMD"}
      [] field = "fault_voltage" -> {"Q1", "Q1_legacy"}

CycleFields == {"ups_mode", "model", "rated_watts", "fault_voltage"}

\* _poll_once has returned its mapping
Polled == pc = "export" \/ (pc = "done" /\ outcome = "ok")

\* C38: the result of a successful cycle is built from the mappings parsed
\* in that cycle and the derived fields alone: ups_mode, model, rated_watts
\* and fault_voltage are in it only if a query of this cycle that yields
\* them answered, whatever the stored result of earlier cycles holds; a
\* field of an earlier cycle is carried forward only by a failed cycle.
C38_OwnMappingsOnly ==
    /\ Polled =>
           /\ result = Derive(live_data, identity_data, ratings_data, mode_data,
                              firmware_data)
           /\ \A f \in CycleFields :
                  f \in DOMAIN result => {site \in SitesOf(f) : Answered(site)} # {}
    /\ (Returned /\ \E f \in CycleFields :
            f \in DOMAIN result /\ {site \in SitesOf(f) : Answered(site)} = {})
           => outcome = "failed"

\* the stored result of an earlier cycle holds ups_mode, model and
\* rated_watts, and the Centurion cycle that has just polled, whose QMD and
\* QMOD queries failed, holds none of them
C38_Witness ==
    /\ pc = "export"
    /\ {"ups_mode", "model", "rated_watts"} \subseteq DOMAIN data
    /\ {"ups_mode", "model", "rated_watts"} \cap DOMAIN result = {}
    /\ Family(result) = "centurion"
    /\ ~Answered("QMD") /\ ~Answered("QMOD")

(***************************************************************************)
(* Properties of the writes of a command.                                  *)
(***************************************************************************)
WireSends == {i \in 1..Len(wire) : wire[i].op = "send"}

\* operation i read a frame, operation i read nothing
GotFrame(i) == wire[i].op = "read" /\ ~wire[i].err /\ wire[i].text # ""
EmptyRead(i) == wire[i].op = "read" /\ ~wire[i].err /\ wire[i].text = ""

\* operation i wrote variant k after the write of variant k - 1 of the same
\* attempt and frames_per_try reads that all came back empty
AfterEmptyReads(i, k) ==
    /\ i - job.frames_per_try - 1 >= 1
    /\ IsSend(i - job.frames_per_try - 1, k - 1)
    /\ ~wire[i - job.frames_per_try - 1].err
    /\ wire[i - job.frames_per_try - 1].att = wire[i].att
    /\ \A m \in (i - job.frames_per_try)..(i - 1) : EmptyRead(m)

\* operation i is the last read of the third variant of its attempt
LastRead(i) ==
    /\ i - job.frames_per_try >= 1
    /\ IsSend(i - job.frames_per_try, Len(Payloads))
    /\ wire[i - job.frames_per_try].att = wire[i].att
    /\ \A m \in (i - job.frames_per_try + 1)..i : wire[m].op = "read"

\* C39: a command call makes no write and no read after it has read a
\* non-empty frame, which it returns; within one attempt it writes the
\* command at most 3 times, a later terminator variant only after every
\* frame read of the variant before came back empty; over the whole call it
\* writes at most 3 x retries times; and an attempt that ends without a
\* transport error and without a frame ends the call with NO_RESPONSE and
\* is not retried.
C39_CommandWrites ==
    job.kind = "command" =>
        /\ \A i \in 1..Len(wire) :
               GotFrame(i) => /\ i = Len(wire)
                              /\ xpc = "returned"
                              /\ answer.raw = wire[i].text
        /\ \A a \in 1..job.retries :
               Cardinality({i \in WireSends : wire[i].att = a}) <= 3
        /\ \A i \in WireSends :
               /\ \E k \in 1..3 : IsSend(i, k)
               /\ IsSend(i, 1) => Follows(i, {"drain"})
               /\ \A k \in 2..3 : IsSend(i, k) => AfterEmptyReads(i, k)
        /\ Cardinality(WireSends) <= 3 * job.retries
        /\ \A i \in 1..Len(wire) :
               (EmptyRead(i) /\ LastRead(i)) =>
                   /\ i = Len(wire)
                   /\ xpc = "returned"
                   /\ answer.raw = "NO_RESPONSE"
                   /\ attempt = wire[i].att

\* a command has returned the frame it read after its second write, on the
\* attempt that followed a transport error
C39_Witness ==
    /\ CommandReturned
    /\ attempt = 2
    /\ GotFrame(Len(wire))
    /\ answer.raw = wire[Len(wire)].text
    /\ Cardinality({i \in WireSends : wire[i].att = 2}) = 2

=============================================================================
